---- MODULE Spec2Model ----
(***************************************************************************)
(* A model of the BethYw data model: Measure (a series of year -> value),  *)
(* Area (names + measures) and Areas (the collection of areas), with the   *)
(* merging copy-assignment operators and the three ingestion routines.     *)
(*                                                                         *)
(* A std::string is a sequence of one-character strings, so that case      *)
(* conversion, splitting and parsing are computed character by character.  *)
(* A std::map / std::unordered_map is a function on its set of keys.       *)
(* A double is modelled by an integer (all the values used are integral).  *)
(***************************************************************************)
EXTENDS Integers, Sequences, FiniteSets, TLC

VARIABLES
    areas,     \* the Areas collection: authority code -> Area
    series,    \* one Measure object held by the caller
    given,     \* the codename that was given to the constructor of series
    last,      \* the last call: its name, arguments, error and the state before it
    steps      \* the number of calls made on the collection

vars == <<areas, series, given, last, steps>>

(***************************************************************************)
(* Bounds of the model.                                                    *)
(***************************************************************************)
\* the number of operations performed on the collection in one behaviour
MaxOps == 2

(***************************************************************************)
(* Characters and strings.                                                 *)
(***************************************************************************)
UpperChars == <<"A","B","C","D","E","F","G","H","I","J","K","L","M",
                "N","O","P","Q","R","S","T","U","V","W","X","Y","Z">>

LowerChars == <<"a","b","c","d","e","f","g","h","i","j","k","l","m",
                "n","o","p","q","r","s","t","u","v","w","x","y","z">>

DigitChars == <<"0","1","2","3","4","5","6","7","8","9">>

\* the characters of the model in ascending order of their character code
CharTable == <<"\r", " ", "+", ",", "-", ".">> \o DigitChars \o UpperChars \o LowerChars

Ord(c) == CHOOSE i \in 1..Len(CharTable) : CharTable[i] = c

IsUpperChar(c) == \E i \in 1..Len(UpperChars) : UpperChars[i] = c

IsLowerChar(c) == \E i \in 1..Len(LowerChars) : LowerChars[i] = c

\* ::tolower on one character
tolower(c) ==
    IF IsUpperChar(c)
    THEN LowerChars[CHOOSE i \in 1..Len(UpperChars) : UpperChars[i] = c]
    ELSE c

\* std::isalpha on one character
isalpha(c) == IsUpperChar(c) \/ IsLowerChar(c)

\* BethYw::toLower: a lower-cased copy of the string
toLower(str) == [i \in 1..Len(str) |-> tolower(str[i])]

\* Area::toLower: lower-cases the string in place and returns it
Area_toLower(str) == [i \in 1..Len(str) |-> tolower(str[i])]

\* operator< of std::string: lexicographic on character codes
RECURSIVE StrLess(_, _)
StrLess(a, b) ==
    IF Len(b) = 0 THEN FALSE
    ELSE IF Len(a) = 0 THEN TRUE
    ELSE IF Ord(Head(a)) # Ord(Head(b)) THEN Ord(Head(a)) < Ord(Head(b))
    ELSE StrLess(Tail(a), Tail(b))

\* the first key of a std::map<std::string, T>
MinStr(S) == CHOOSE s \in S : \A t \in S \ {s} : StrLess(s, t)

\* the first key of a std::map<int, T>
MinInt(S) == CHOOSE s \in S : \A t \in S : s <= t

MaxInt(S) == CHOOSE s \in S : \A t \in S : t <= s

(***************************************************************************)
(* Maps.                                                                   *)
(***************************************************************************)
EmptyMap == [k \in {} |-> k]

\* map[k] = v
MapPut(map, k, v) == [x \in (DOMAIN map) \cup {k} |-> IF x = k THEN v ELSE map[x]]

Has(map, k) == k \in DOMAIN map

(***************************************************************************)
(* Measure.                                                                *)
(***************************************************************************)
\* a constructor that stores the codename as given
Measure_verbatim(codename, label) ==
    [code |-> codename, label |-> label, values |-> EmptyMap]

\* Measure::Measure(codename, label)
Measure(codename, label) ==
    [code |-> toLower(codename), label |-> label, values |-> EmptyMap]

\* Measure::setLabel
Measure_setLabel(m, newLabel) == [m EXCEPT !.label = newLabel]

\* Measure::setValue: values[year] = value
Measure_setValue(m, year, value) ==
    [m EXCEPT !.values = MapPut(m.values, year, value)]

\* Measure::size
Measure_size(m) == Cardinality(DOMAIN m.values)

\* a difference of the first year from the last year
Measure_getDifference_reversed(m) ==
    IF DOMAIN m.values # {}
    THEN LET firstValue  == m.values[MinInt(DOMAIN m.values)]
             secondValue == m.values[MaxInt(DOMAIN m.values)]
         IN  firstValue - secondValue
    ELSE 0

\* Measure::getDifference: values.rbegin()->second - values.begin()->second
Measure_getDifference(m) ==
    IF DOMAIN m.values # {}
    THEN LET firstValue  == m.values[MinInt(DOMAIN m.values)]
             secondValue == m.values[MaxInt(DOMAIN m.values)]
         IN  secondValue - firstValue
    ELSE 0

\* a merge loop that keeps the value self already has for a year
RECURSIVE Measure_assignLoop_keep(_, _, _)
Measure_assignLoop_keep(values, other, todo) ==
    IF todo = {} THEN values
    ELSE LET y == MinInt(todo)
         IN  Measure_assignLoop_keep(
                 IF Has(values, y) THEN values ELSE MapPut(values, y, other[y]),
                 other, todo \ {y})

\* the loop of Measure::operator= over other.values, in ascending year order
RECURSIVE Measure_assignLoop(_, _, _)
Measure_assignLoop(values, other, todo) ==
    IF todo = {} THEN values
    ELSE LET y == MinInt(todo)
         IN  Measure_assignLoop(MapPut(values, y, other[y]), other, todo \ {y})

\* a merge that adds the value of other to the value self already has for a year
Measure_assign_add(self, other) ==
    [self EXCEPT !.values =
        [y \in (DOMAIN self.values) \cup (DOMAIN other.values) |->
            IF y \notin DOMAIN other.values THEN self.values[y]
            ELSE IF y \notin DOMAIN self.values THEN other.values[y]
            ELSE self.values[y] + other.values[y]]]

\* a merge that takes the label of other as well
Measure_assign_relabel(self, other) ==
    [self EXCEPT !.values = Measure_assignLoop(self.values, other.values, DOMAIN other.values),
                 !.label = other.label]

\* Measure::operator=(other): code and label of self are left as they are
Measure_assign(self, other) ==
    [self EXCEPT !.values = Measure_assignLoop(self.values, other.values, DOMAIN other.values)]

(***************************************************************************)
(* Area.                                                                   *)
(***************************************************************************)
\* Area::Area(localAuthorityCode)
Area(localAuthorityCode) ==
    [authorityCode |-> localAuthorityCode, names |-> EmptyMap, measures |-> EmptyMap]

\* Area::hasName
Area_hasName(area, langCode) == Has(area.names, langCode)

\* a check of the length of the language code only
Area_setName_throws_length(lang) == Len(lang) # 3

\* Area::setName throws std::invalid_argument
Area_setName_throws(lang) ==
    \/ Len(lang) # 3
    \/ \E i \in 1..Len(lang) : ~isalpha(lang[i])

\* a setName that stores the name under the language code as given
Area_setName_verbatim(area, lang, name) ==
    [area EXCEPT !.names = MapPut(area.names, lang, name)]

\* Area::setName when it does not throw
Area_setName(area, lang, name) ==
    [area EXCEPT !.names = MapPut(area.names, Area_toLower(lang), name)]

\* a setMeasure that uses the codename as given as the key
Area_setMeasure_verbatim(area, codename, measure) ==
    IF ~Has(area.measures, codename)
    THEN [area EXCEPT !.measures = MapPut(area.measures, codename, measure)]
    ELSE [area EXCEPT !.measures =
             MapPut(area.measures, codename, Measure_assign(area.measures[codename], measure))]

\* Area::setMeasure(codename, measure)
Area_setMeasure(area, codename, measure) ==
    LET lowerCaseName == Area_toLower(codename)
    IN  IF ~Has(area.measures, lowerCaseName)
        THEN [area EXCEPT !.measures = MapPut(area.measures, lowerCaseName, measure)]
        ELSE [area EXCEPT !.measures =
                 MapPut(area.measures, lowerCaseName,
                        Measure_assign(area.measures[lowerCaseName], measure))]

\* Area::size
Area_size(area) == Cardinality(DOMAIN area.measures)

\* the first loop of Area::operator=: this->names[it->first] = it->second
RECURSIVE Area_assignNames(_, _, _)
Area_assignNames(names, other, todo) ==
    IF todo = {} THEN names
    ELSE LET k == MinStr(todo)
         IN  Area_assignNames(MapPut(names, k, other[k]), other, todo \ {k})

\* a second loop that replaces a measure self already has by the one of other
RECURSIVE Area_assignMeasures_replace(_, _, _)
Area_assignMeasures_replace(measures, other, todo) ==
    IF todo = {} THEN measures
    ELSE LET k == MinStr(todo)
         IN  Area_assignMeasures_replace(MapPut(measures, k, other[k]), other, todo \ {k})

\* the second loop of Area::operator=: merge or insert each measure of other
RECURSIVE Area_assignMeasures(_, _, _)
Area_assignMeasures(measures, other, todo) ==
    IF todo = {} THEN measures
    ELSE LET k == MinStr(todo)
             next == IF Has(measures, k)
                     THEN MapPut(measures, k, Measure_assign(measures[k], other[k]))
                     ELSE MapPut(measures, k, other[k])
         IN  Area_assignMeasures(next, other, todo \ {k})

\* the copy assignment the compiler would generate: names and measures become those of other
Area_assign_copy(self, other) ==
    [self EXCEPT !.names = other.names, !.measures = other.measures]

\* Area::operator=(other): the authority code of self is left as it is
Area_assign(self, other) ==
    [self EXCEPT
        !.names = Area_assignNames(self.names, other.names, DOMAIN other.names),
        !.measures = Area_assignMeasures(self.measures, other.measures, DOMAIN other.measures)]

(***************************************************************************)
(* Areas.                                                                  *)
(***************************************************************************)
\* Areas::Areas
Areas_new == EmptyMap

\* a setArea that overwrites the stored area
Areas_setArea_overwrite(coll, localAuthorityCode, area) ==
    MapPut(coll, localAuthorityCode, area)

\* Areas::setArea(localAuthorityCode, area)
Areas_setArea(coll, localAuthorityCode, area) ==
    IF ~Has(coll, localAuthorityCode)
    THEN MapPut(coll, localAuthorityCode, area)
    ELSE MapPut(coll, localAuthorityCode, Area_assign(coll[localAuthorityCode], area))

\* Areas::size
Areas_size(coll) == Cardinality(DOMAIN coll)

(***************************************************************************)
(* Input streams.  A stream is the characters not yet read and its eofbit  *)
(* and failbit.  A pointer argument is <<>> for nullptr and <<x>> for a    *)
(* pointer to x.                                                           *)
(***************************************************************************)
Stream(text) == [buf |-> text, eof |-> FALSE, fail |-> FALSE]

\* the position of the first delim in buf, 0 if there is none
IndexOf(buf, delim) ==
    IF \E i \in 1..Len(buf) : buf[i] = delim
    THEN MinInt({i \in 1..Len(buf) : buf[i] = delim})
    ELSE 0

\* std::getline(is, str, delim): the stream and the string after the call.  A stream that
\* is not good fails and leaves str as it was; otherwise str is erased and filled up to the
\* delimiter (which is extracted and dropped) or to the end of the stream (eofbit), and the
\* call fails if it extracted nothing at all.
getline(is, str, delim) ==
    IF is.eof \/ is.fail
    THEN [is |-> [is EXCEPT !.fail = TRUE], str |-> str]
    ELSE LET i == IndexOf(is.buf, delim)
         IN  IF i > 0
             THEN [is  |-> [is EXCEPT !.buf = SubSeq(is.buf, i + 1, Len(is.buf))],
                   str |-> SubSeq(is.buf, 1, i - 1)]
             ELSE [is  |-> [buf |-> <<>>, eof |-> TRUE, fail |-> (Len(is.buf) = 0)],
                   str |-> is.buf]

(***************************************************************************)
(* Areas::populateFromAuthorityCodeCSV.  The result of an ingestion call   *)
(* is the collection it leaves, the exception it ends with and, for the    *)
(* CSV routines, the stream as the call leaves it.                         *)
(***************************************************************************)
\* a loop that skips a line with an empty field and goes on with the next line
RECURSIVE AuthorityCodeCSV_lines_skip(_, _, _)
AuthorityCodeCSV_lines_skip(coll, is, areasFilter) ==
    LET l == getline(is, <<>>, "\n")
    IN  IF l.is.fail
        THEN [areas |-> coll, err |-> "none", is |-> l.is]
        ELSE LET authorityCode == getline(Stream(l.str), <<>>, ",")
                 englishName   == getline(authorityCode.is, <<>>, ",")
                 welshName     == getline(englishName.is, <<>>, ",")
             IN  IF authorityCode.str = <<>> \/ englishName.str = <<>> \/ welshName.str = <<>>
                 THEN AuthorityCodeCSV_lines_skip(coll, l.is, areasFilter)
                 ELSE IF \/ areasFilter = <<>>
                         \/ areasFilter[1] = {}
                         \/ authorityCode.str \in areasFilter[1]
                 THEN LET newArea ==
                              Area_setName(
                                  Area_setName(Area(authorityCode.str),
                                               <<"e","n","g">>, englishName.str),
                                  <<"c","y","m">>, welshName.str)
                      IN  AuthorityCodeCSV_lines_skip(
                              Areas_setArea(coll, authorityCode.str, newArea), l.is, areasFilter)
                 ELSE AuthorityCodeCSV_lines_skip(coll, l.is, areasFilter)

\* the while loop over the data lines
RECURSIVE AuthorityCodeCSV_lines(_, _, _)
AuthorityCodeCSV_lines(coll, is, areasFilter) ==
    LET l == getline(is, <<>>, "\n")
    IN  IF l.is.fail
        THEN [areas |-> coll, err |-> "none", is |-> l.is]
        ELSE LET authorityCode == getline(Stream(l.str), <<>>, ",")
                 englishName   == getline(authorityCode.is, <<>>, ",")
                 welshName     == getline(englishName.is, <<>>, ",")
             IN  IF authorityCode.str = <<>> \/ englishName.str = <<>> \/ welshName.str = <<>>
                 THEN [areas |-> coll, err |-> "runtime_error", is |-> l.is]
                 ELSE IF \/ areasFilter = <<>>
                         \/ areasFilter[1] = {}
                         \/ authorityCode.str \in areasFilter[1]
                 THEN LET newArea ==
                              Area_setName(
                                  Area_setName(Area(authorityCode.str),
                                               <<"e","n","g">>, englishName.str),
                                  <<"c","y","m">>, welshName.str)
                      IN  AuthorityCodeCSV_lines(
                              Areas_setArea(coll, authorityCode.str, newArea), l.is, areasFilter)
                 ELSE AuthorityCodeCSV_lines(coll, l.is, areasFilter)

\* an ingestion that takes the heading line for a data line
populateFromAuthorityCodeCSV_heading(coll, text, cols, areasFilter) ==
    IF Cardinality(DOMAIN cols) # 3
    THEN [areas |-> coll, err |-> "out_of_range", is |-> Stream(text)]
    ELSE AuthorityCodeCSV_lines(coll, Stream(text), areasFilter)

populateFromAuthorityCodeCSV(coll, text, cols, areasFilter) ==
    IF Cardinality(DOMAIN cols) # 3
    THEN [areas |-> coll, err |-> "out_of_range", is |-> Stream(text)]
    ELSE LET heading == getline(Stream(text), <<>>, "\n")
         IN  AuthorityCodeCSV_lines(coll, heading.is, areasFilter)

(***************************************************************************)
(* Parsing helpers of bethyw.cpp and areas.cpp.                            *)
(***************************************************************************)
DigitValue(c) == (CHOOSE i \in 1..Len(DigitChars) : DigitChars[i] = c) - 1

DigitSet == {DigitChars[i] : i \in 1..Len(DigitChars)}

\* the characters of the model that std::isspace accepts
SpaceSet == {" ", "\r"}

\* the length of the longest run of characters of chars in str from position from on
RECURSIVE RunLength(_, _, _)
RunLength(str, from, chars) ==
    IF from <= Len(str) /\ str[from] \in chars THEN 1 + RunLength(str, from + 1, chars) ELSE 0

\* the number that a string of decimal digits denotes
RECURSIVE DecimalValue(_)
DecimalValue(digits) ==
    IF digits = <<>> THEN 0
    ELSE 10 * DecimalValue(SubSeq(digits, 1, Len(digits) - 1)) + DigitValue(digits[Len(digits)])

\* strtol(str, &end, 10): the value and the number of characters before end.  Leading
\* white space and one sign are accepted; with no digit nothing is converted and end = str.
strtol(str) ==
    LET spaces  == RunLength(str, 1, SpaceSet)
        hasSign == spaces < Len(str) /\ str[spaces + 1] \in {"+", "-"}
        start   == spaces + (IF hasSign THEN 2 ELSE 1)
        ndigits == RunLength(str, start, DigitSet)
        value   == DecimalValue(SubSeq(str, start, start + ndigits - 1))
    IN  IF ndigits = 0
        THEN [value |-> 0, end |-> 0]
        ELSE [value |-> IF hasSign /\ str[spaces + 1] = "-" THEN 0 - value ELSE value,
              end   |-> start + ndigits - 1]

\* BethYw::isInt: *end == '\0' after strtol
isInt(str) == strtol(str).end = Len(str)

\* BethYw::is4DigitInt
is4DigitInt(num) == 999 < num /\ num < 10000

\* An unsigned int is represented by the int that has the same 32 bits, so that the
\* conversions between the two are the identity; a negative int is an unsigned int above
\* all the non-negative ones.
UnsignedLeq(a, b) == IF (a < 0) = (b < 0) THEN a <= b ELSE b < 0

\* Areas::parseYear throws std::runtime_error
parseYear_throws(str) == strtol(str).end # Len(str)

\* Areas::parseYear: the value of strtol converted to unsigned int
parseYear(str) == strtol(str).value

\* BethYw::isDouble, by analogy with isInt: the whole string is one decimal number, with
\* the white space and sign that strtod accepts
isDouble(str) ==
    LET spaces  == RunLength(str, 1, SpaceSet)
        hasSign == spaces < Len(str) /\ str[spaces + 1] \in {"+", "-"}
        start   == spaces + (IF hasSign THEN 2 ELSE 1)
        whole   == RunLength(str, start, DigitSet)
        hasDot  == start + whole <= Len(str) /\ str[start + whole] = "."
        frac    == IF hasDot THEN RunLength(str, start + whole + 1, DigitSet) ELSE 0
    IN  /\ whole + frac > 0
        /\ start + whole + (IF hasDot THEN 1 + frac ELSE 0) - 1 = Len(str)

\* std::stod throws std::invalid_argument: the string does not start with a number
stod_throws(str) ==
    LET spaces  == RunLength(str, 1, SpaceSet)
        hasSign == spaces < Len(str) /\ str[spaces + 1] \in {"+", "-"}
        start   == spaces + (IF hasSign THEN 2 ELSE 1)
        whole   == RunLength(str, start, DigitSet)
        hasDot  == start + whole <= Len(str) /\ str[start + whole] = "."
        frac    == IF hasDot THEN RunLength(str, start + whole + 1, DigitSet) ELSE 0
    IN  whole + frac = 0

\* std::stod on a string that starts with a number whose fraction digits are all zero
stod(str) ==
    LET spaces  == RunLength(str, 1, SpaceSet)
        hasSign == spaces < Len(str) /\ str[spaces + 1] \in {"+", "-"}
        start   == spaces + (IF hasSign THEN 2 ELSE 1)
        whole   == RunLength(str, start, DigitSet)
        value   == DecimalValue(SubSeq(str, start, start + whole - 1))
    IN  IF hasSign /\ str[spaces + 1] = "-" THEN 0 - value ELSE value

\* ::toupper on one character
toupper(c) ==
    IF IsLowerChar(c)
    THEN UpperChars[CHOOSE i \in 1..Len(LowerChars) : LowerChars[i] = c]
    ELSE c

\* BethYw::toUpper: an upper-cased copy of the string
toUpper(str) == [i \in 1..Len(str) |-> toupper(str[i])]

\* Areas::isIncludedInFilter(filter, data, toUpper)
isIncludedInFilter(filter, data, upper) ==
    IF filter = <<>> \/ filter[1] = {}
    THEN TRUE
    ELSE IF upper
    THEN toUpper(data) \in filter[1]
    ELSE toLower(data) \in filter[1]

\* Areas::isInYearRange reads *yearRange without a test for nullptr: with yearRange nullptr
\* the behaviour of the call is undefined
isInYearRange_undefined(yearRange) == yearRange = <<>>

\* Areas::isInYearRange(yearRange, year), for a yearRange that is not nullptr
isInYearRange(yearRange, year) ==
    IF yearRange[1][1] = 0 /\ yearRange[1][2] = 0
    THEN TRUE
    ELSE UnsignedLeq(yearRange[1][1], year) /\ UnsignedLeq(year, yearRange[1][2])

\* Areas::removeEndline, for a string that is not empty
removeEndline(str) ==
    IF str[Len(str)] \in {"\r", "\n"} THEN SubSeq(str, 1, Len(str) - 1) ELSE str

(***************************************************************************)
(* Areas::populateFromAuthorityByYearCSV.                                  *)
(***************************************************************************)
\* the while loop of Areas::getYears: the years of the heading, or the exception
RECURSIVE getYears_loop(_, _)
getYears_loop(lineStream, years) ==
    LET buffer == getline(lineStream, <<>>, ",")
    IN  IF buffer.is.fail
        THEN [years |-> years, err |-> "none"]
        ELSE IF ~isInt(buffer.str)
        THEN [years |-> years, err |-> "runtime_error"]
        ELSE IF strtol(buffer.str).end = 0
        THEN [years |-> years, err |-> "invalid_argument"]
        ELSE IF ~is4DigitInt(strtol(buffer.str).value)
        THEN [years |-> years, err |-> "runtime_error"]
        ELSE getYears_loop(buffer.is, Append(years, strtol(buffer.str).value))

\* Areas::getYears: the first element of the line is thrown away
getYears(lineStream) == getYears_loop(getline(lineStream, <<>>, ",").is, <<>>)

\* the for loop over the years of one row: value keeps what the last getline left in it;
\* the exception "undefined" stands for the point where the behaviour becomes undefined
RECURSIVE AuthorityByYearCSV_cells(_, _, _, _, _, _)
AuthorityByYearCSV_cells(newMeasure, lineStream, value, years, i, yearsFilter) ==
    IF i > Len(years)
    THEN [measure |-> newMeasure, err |-> "none"]
    ELSE IF isInYearRange_undefined(yearsFilter)
    THEN [measure |-> newMeasure, err |-> "undefined"]
    ELSE IF ~isInYearRange(yearsFilter, years[i])
    THEN AuthorityByYearCSV_cells(newMeasure, lineStream, value, years, i + 1, yearsFilter)
    ELSE LET cell == getline(lineStream, value, ",")
         IN  IF cell.str = <<>>
             THEN [measure |-> newMeasure, err |-> "runtime_error"]
             ELSE IF isDouble(cell.str)
             THEN AuthorityByYearCSV_cells(
                      Measure_setValue(newMeasure, years[i], stod(cell.str)),
                      cell.is, cell.str, years, i + 1, yearsFilter)
             ELSE AuthorityByYearCSV_cells(newMeasure, cell.is, cell.str, years, i + 1,
                                           yearsFilter)

\* the while loop over the data lines (none of which is empty)
RECURSIVE AuthorityByYearCSV_lines(_, _, _, _, _, _, _)
AuthorityByYearCSV_lines(coll, is, years, measureCode, measureLabel, areasFilter, yearsFilter) ==
    LET l == getline(is, <<>>, "\n")
    IN  IF l.is.fail
        THEN [areas |-> coll, err |-> "none", is |-> l.is]
        ELSE LET authorityCode == getline(Stream(removeEndline(l.str)), <<>>, ",")
             IN  IF ~isIncludedInFilter(areasFilter, authorityCode.str, TRUE)
                 THEN AuthorityByYearCSV_lines(coll, l.is, years, measureCode, measureLabel,
                                               areasFilter, yearsFilter)
                 ELSE LET cells == AuthorityByYearCSV_cells(
                                       Measure(measureCode, measureLabel), authorityCode.is,
                                       <<>>, years, 1, yearsFilter)
                          newArea == Area_setMeasure(Area(authorityCode.str), measureCode,
                                                     cells.measure)
                      IN  IF cells.err # "none"
                          THEN [areas |-> coll, err |-> cells.err, is |-> l.is]
                          ELSE AuthorityByYearCSV_lines(
                                   Areas_setArea(coll, authorityCode.str, newArea), l.is, years,
                                   measureCode, measureLabel, areasFilter, yearsFilter)

\* an ingestion that reads the heading before it tests the measure filter
populateFromAuthorityByYearCSV_eager(coll, text, cols, areasFilter, measuresFilter, yearsFilter) ==
    IF Cardinality(DOMAIN cols) # 3
    THEN [areas |-> coll, err |-> "out_of_range", is |-> Stream(text)]
    ELSE IF ~({"SINGLE_MEASURE_CODE", "SINGLE_MEASURE_NAME"} \subseteq DOMAIN cols)
    THEN [areas |-> coll, err |-> "out_of_range", is |-> Stream(text)]
    ELSE LET heading == getline(Stream(text), <<>>, "\n")
         IN  IF heading.str = <<>>
             THEN [areas |-> coll, err |-> "runtime_error", is |-> heading.is]
             ELSE LET years == getYears(Stream(removeEndline(heading.str)))
                  IN  IF years.err # "none"
                      THEN [areas |-> coll, err |-> years.err, is |-> heading.is]
                      ELSE IF ~isIncludedInFilter(measuresFilter, cols["SINGLE_MEASURE_CODE"], FALSE)
                      THEN [areas |-> coll, err |-> "none", is |-> heading.is]
                      ELSE AuthorityByYearCSV_lines(
                               coll, heading.is, years.years, cols["SINGLE_MEASURE_CODE"],
                               cols["SINGLE_MEASURE_NAME"], areasFilter, yearsFilter)

\* an ingestion that does not look at the number of entries of the column mapping
populateFromAuthorityByYearCSV_unchecked(coll, text, cols, areasFilter, measuresFilter, yearsFilter) ==
    IF ~({"SINGLE_MEASURE_CODE", "SINGLE_MEASURE_NAME"} \subseteq DOMAIN cols)
    THEN [areas |-> coll, err |-> "out_of_range", is |-> Stream(text)]
    ELSE IF ~isIncludedInFilter(measuresFilter, cols["SINGLE_MEASURE_CODE"], FALSE)
    THEN [areas |-> coll, err |-> "none", is |-> Stream(text)]
    ELSE LET heading == getline(Stream(text), <<>>, "\n")
         IN  IF heading.str = <<>>
             THEN [areas |-> coll, err |-> "runtime_error", is |-> heading.is]
             ELSE LET years == getYears(Stream(removeEndline(heading.str)))
                  IN  IF years.err # "none"
                      THEN [areas |-> coll, err |-> years.err, is |-> heading.is]
                      ELSE AuthorityByYearCSV_lines(
                               coll, heading.is, years.years, cols["SINGLE_MEASURE_CODE"],
                               cols["SINGLE_MEASURE_NAME"], areasFilter, yearsFilter)

populateFromAuthorityByYearCSV(coll, text, cols, areasFilter, measuresFilter, yearsFilter) ==
    IF Cardinality(DOMAIN cols) # 3
    THEN [areas |-> coll, err |-> "out_of_range", is |-> Stream(text)]
    ELSE IF ~({"SINGLE_MEASURE_CODE", "SINGLE_MEASURE_NAME"} \subseteq DOMAIN cols)
    THEN [areas |-> coll, err |-> "out_of_range", is |-> Stream(text)]
    ELSE IF ~isIncludedInFilter(measuresFilter, cols["SINGLE_MEASURE_CODE"], FALSE)
    THEN [areas |-> coll, err |-> "none", is |-> Stream(text)]
    ELSE LET heading == getline(Stream(text), <<>>, "\n")
         IN  IF heading.str = <<>>
             THEN [areas |-> coll, err |-> "runtime_error", is |-> heading.is]
             ELSE LET years == getYears(Stream(removeEndline(heading.str)))
                  IN  IF years.err # "none"
                      THEN [areas |-> coll, err |-> years.err, is |-> heading.is]
                      ELSE AuthorityByYearCSV_lines(
                               coll, heading.is, years.years, cols["SINGLE_MEASURE_CODE"],
                               cols["SINGLE_MEASURE_NAME"], areasFilter, yearsFilter)

(***************************************************************************)
(* Areas::populateFromWelshStatsJSON.  The stream holds well-formed JSON;  *)
(* a JSON object is a function on its keys, a JSON string is              *)
(* [type |-> "string", str |-> s, num |-> 0] and a JSON number is         *)
(* [type |-> "number", str |-> <<>>, num |-> n].                           *)
(***************************************************************************)
JsonString(s) == [type |-> "string", str |-> s, num |-> 0]

JsonNumber(n) == [type |-> "number", str |-> <<>>, num |-> n]

\* the keys of the rows of the datasets
AreaKey == <<"a","r","e","a">>

AreaNameKey == <<"a","r","e","a","_","e","n","g">>

MeasureKey == <<"m","e","a","s","u","r","e">>

MeasureNameKey == <<"m","e","a","s","u","r","e","_","e","n","g">>

YearKey == <<"y","e","a","r">>

DataKey == <<"d","a","t","a">>

RailCode == <<"r","a","i","l">>

RailLabel == <<"R","a","i","l">>

\* the column mapping of a dataset that names its measure in every row
POPDEN_COLS ==
    [c \in {"AUTH_CODE", "AUTH_NAME_ENG", "MEASURE_CODE", "MEASURE_NAME", "YEAR", "VALUE"} |->
        CASE c = "AUTH_CODE"     -> AreaKey
          [] c = "AUTH_NAME_ENG" -> AreaNameKey
          [] c = "MEASURE_CODE"  -> MeasureKey
          [] c = "MEASURE_NAME"  -> MeasureNameKey
          [] c = "YEAR"          -> YearKey
          [] c = "VALUE"         -> DataKey]

\* BethYw::InputFiles::AQI.COLS: the dataset whose values are strings
AQI_COLS ==
    [c \in {"AUTH_CODE", "AUTH_NAME_ENG", "MEASURE_CODE", "MEASURE_NAME", "YEAR", "VALUE"} |->
        CASE c = "AUTH_CODE"     -> AreaKey
          [] c = "AUTH_NAME_ENG" -> AreaNameKey
          [] c = "MEASURE_CODE"  -> <<"p","o","l","l","u","t","a","n","t">>
          [] c = "MEASURE_NAME"  -> <<"p","o","l","l","u","t","a","n","t","_","e","n","g">>
          [] c = "YEAR"          -> YearKey
          [] c = "VALUE"         -> DataKey]

\* BethYw::InputFiles::TRAINS.COLS: the single measure dataset
TRAINS_COLS ==
    [c \in {"AUTH_CODE", "AUTH_NAME_ENG", "YEAR", "VALUE",
            "SINGLE_MEASURE_CODE", "SINGLE_MEASURE_NAME"} |->
        CASE c = "AUTH_CODE"           -> AreaKey
          [] c = "AUTH_NAME_ENG"       -> AreaNameKey
          [] c = "YEAR"                -> YearKey
          [] c = "VALUE"               -> DataKey
          [] c = "SINGLE_MEASURE_CODE" -> RailCode
          [] c = "SINGLE_MEASURE_NAME" -> RailLabel]

\* a look-up that gives an empty string or the number 0 for a key that the row lacks
Column_lenient(data, cols, column, type) ==
    IF column \notin DOMAIN cols
    THEN [err |-> "out_of_range", v |-> JsonString(<<>>)]
    ELSE IF cols[column] \notin DOMAIN data
    THEN [err |-> "none", v |-> IF type = "number" THEN JsonNumber(0) ELSE JsonString(<<>>)]
    ELSE IF data[cols[column]].type # type
    THEN [err |-> "type_error", v |-> data[cols[column]]]
    ELSE [err |-> "none", v |-> data[cols[column]]]

\* Areas::safeGet(data, cols.at(column)) converted to type: the value, or the exception
\* (std::out_of_range of cols.at, std::runtime_error of safeGet, type_error of the conversion)
Column(data, cols, column, type) ==
    IF column \notin DOMAIN cols
    THEN [err |-> "out_of_range", v |-> JsonString(<<>>)]
    ELSE IF cols[column] \notin DOMAIN data
    THEN [err |-> "runtime_error", v |-> JsonString(<<>>)]
    ELSE IF data[cols[column]].type # type
    THEN [err |-> "type_error", v |-> data[cols[column]]]
    ELSE [err |-> "none", v |-> data[cols[column]]]

\* the first exception among the given steps, "none" if there is none
RECURSIVE FirstError(_)
FirstError(errs) ==
    IF errs = <<>> THEN "none"
    ELSE IF Head(errs) # "none" THEN Head(errs)
    ELSE FirstError(Tail(errs))

\* a loop body that reads every column of the row before it tests the filters
WelshStatsJSON_row_eager(coll, data, cols, areasFilter, measuresFilter, yearsFilter) ==
    LET authorityCode == Column(data, cols, "AUTH_CODE", "string")
        measureCode   == Column(data, cols, "MEASURE_CODE", "string")
        yearText      == Column(data, cols, "YEAR", "string")
        areaEngName   == Column(data, cols, "AUTH_NAME_ENG", "string")
        value         == Column(data, cols, "VALUE", "number")
        measureLabel  == Column(data, cols, "MEASURE_NAME", "string")
        error         == FirstError(<<authorityCode.err, measureCode.err, yearText.err,
                                      IF yearText.err = "none" /\ parseYear_throws(yearText.v.str)
                                      THEN "runtime_error" ELSE "none",
                                      areaEngName.err, value.err, measureLabel.err>>)
        year          == parseYear(yearText.v.str)
    IN  IF error # "none"
        THEN [areas |-> coll, err |-> error]
        ELSE IF \/ ~isIncludedInFilter(areasFilter, authorityCode.v.str, TRUE)
                \/ ~isIncludedInFilter(measuresFilter, measureCode.v.str, FALSE)
                \/ ~isInYearRange(yearsFilter, year)
        THEN [areas |-> coll, err |-> "none"]
        ELSE [areas |-> Areas_setArea(coll, authorityCode.v.str,
                            Area_setMeasure(
                                Area_setName(Area(authorityCode.v.str), <<"e","n","g">>,
                                             areaEngName.v.str),
                                measureCode.v.str,
                                Measure_setValue(Measure(measureCode.v.str, measureLabel.v.str),
                                                 year, value.v.num))),
              err |-> "none"]

\* the body of the for loop for one row: the collection it leaves and the exception
WelshStatsJSON_row(coll, data, cols, areasFilter, measuresFilter, yearsFilter) ==
    LET isTrainDataset == cols = TRAINS_COLS
        authorityCode  == Column(data, cols, "AUTH_CODE", "string")
        measureCode    == IF isTrainDataset
                          THEN [err |-> "none", v |-> JsonString(TRAINS_COLS["SINGLE_MEASURE_CODE"])]
                          ELSE Column(data, cols, "MEASURE_CODE", "string")
        yearText       == Column(data, cols, "YEAR", "string")
        yearError      == IF yearText.err # "none" THEN yearText.err
                          ELSE IF parseYear_throws(yearText.v.str) THEN "runtime_error"
                          ELSE "none"
        year           == parseYear(yearText.v.str)
        areaEngName    == Column(data, cols, "AUTH_NAME_ENG", "string")
        valueText      == Column(data, cols, "VALUE", "string")
        valueNumber    == Column(data, cols, "VALUE", "number")
        valueError     == IF cols = AQI_COLS
                          THEN IF valueText.err # "none" THEN valueText.err
                               ELSE IF stod_throws(valueText.v.str) THEN "invalid_argument"
                               ELSE "none"
                          ELSE valueNumber.err
        value          == IF cols = AQI_COLS THEN stod(valueText.v.str) ELSE valueNumber.v.num
        measureLabel   == IF isTrainDataset
                          THEN [err |-> "none", v |-> JsonString(TRAINS_COLS["SINGLE_MEASURE_NAME"])]
                          ELSE Column(data, cols, "MEASURE_NAME", "string")
        newArea        == Area_setName(Area(authorityCode.v.str), <<"e","n","g">>,
                                       areaEngName.v.str)
        newMeasure     == Measure_setValue(Measure(measureCode.v.str, measureLabel.v.str),
                                           year, value)
    IN  IF authorityCode.err # "none"
        THEN [areas |-> coll, err |-> authorityCode.err]
        ELSE IF ~isIncludedInFilter(areasFilter, authorityCode.v.str, TRUE)
        THEN [areas |-> coll, err |-> "none"]
        ELSE IF measureCode.err # "none"
        THEN [areas |-> coll, err |-> measureCode.err]
        ELSE IF ~isIncludedInFilter(measuresFilter, measureCode.v.str, FALSE)
        THEN [areas |-> coll, err |-> "none"]
        ELSE IF yearError # "none"
        THEN [areas |-> coll, err |-> yearError]
        ELSE IF isInYearRange_undefined(yearsFilter)
        THEN [areas |-> coll, err |-> "undefined"]
        ELSE IF ~isInYearRange(yearsFilter, year)
        THEN [areas |-> coll, err |-> "none"]
        ELSE IF FirstError(<<areaEngName.err, valueError, measureLabel.err>>) # "none"
        THEN [areas |-> coll,
              err |-> FirstError(<<areaEngName.err, valueError, measureLabel.err>>)]
        ELSE [areas |-> Areas_setArea(coll, authorityCode.v.str,
                            Area_setMeasure(newArea, measureCode.v.str, newMeasure)),
              err |-> "none"]

\* the for loop over the rows
RECURSIVE WelshStatsJSON_rows(_, _, _, _, _, _, _)
WelshStatsJSON_rows(coll, rows, i, cols, areasFilter, measuresFilter, yearsFilter) ==
    IF i > Len(rows)
    THEN [areas |-> coll, err |-> "none"]
    ELSE LET row == WelshStatsJSON_row(coll, rows[i], cols, areasFilter, measuresFilter,
                                       yearsFilter)
         IN  IF row.err # "none"
             THEN row
             ELSE WelshStatsJSON_rows(row.areas, rows, i + 1, cols, areasFilter,
                                      measuresFilter, yearsFilter)

\* j is the JSON object read from the stream; its rows are under the key "value"
populateFromWelshStatsJSON(coll, j, cols, areasFilter, measuresFilter, yearsFilter) ==
    IF <<"v","a","l","u","e">> \notin DOMAIN j
    THEN [areas |-> coll, err |-> "runtime_error"]
    ELSE WelshStatsJSON_rows(coll, j[<<"v","a","l","u","e">>], 1, cols, areasFilter,
                             measuresFilter, yearsFilter)

(***************************************************************************)
(* Areas::populate.  good is is.good(); input is what the stream holds,    *)
(* the text of a CSV file or the JSON object; type is the name of the      *)
(* value of BethYw::SourceDataType.                                        *)
(***************************************************************************)
\* Areas::populate(is, type, cols)
populate(coll, good, input, type, cols) ==
    IF ~good
    THEN [areas |-> coll, err |-> "runtime_error"]
    ELSE IF type = "AuthorityCodeCSV"
    THEN populateFromAuthorityCodeCSV(coll, input, cols, <<>>)
    ELSE IF type = "WelshStatsJSON"
    THEN populateFromWelshStatsJSON(coll, input, cols, << {} >>, << {} >>, << <<0, 0>> >>)
    ELSE IF type = "AuthorityByYearCSV"
    THEN populateFromAuthorityByYearCSV(coll, input, cols, <<>>, <<>>, <<>>)
    ELSE [areas |-> coll, err |-> "runtime_error"]

\* Areas::populate(is, type, cols, areasFilter, measuresFilter, yearsFilter)
populate_filtered(coll, good, input, type, cols, areasFilter, measuresFilter, yearsFilter) ==
    IF ~good
    THEN [areas |-> coll, err |-> "runtime_error"]
    ELSE IF type = "AuthorityCodeCSV"
    THEN populateFromAuthorityCodeCSV(coll, input, cols, areasFilter)
    ELSE IF type = "WelshStatsJSON"
    THEN populateFromWelshStatsJSON(coll, input, cols, areasFilter, measuresFilter, yearsFilter)
    ELSE IF type = "AuthorityByYearCSV"
    THEN populateFromAuthorityByYearCSV(coll, input, cols, areasFilter, measuresFilter,
                                        yearsFilter)
    ELSE [areas |-> coll, err |-> "runtime_error"]

(***************************************************************************)
(* The JSON export.  A JSON object is [type |-> "object", members |-> f]   *)
(* with f a function on its keys, a JSON array is [type |-> "array",       *)
(* elems |-> s] with s the sequence of its elements.                       *)
(***************************************************************************)
JsonObject(members) == [type |-> "object", members |-> members]

JsonArray(elems) == [type |-> "array", elems |-> elems]

\* the constructor of nlohmann::json from a braced list: an object when every element is
\* an array of two elements whose first is a string, an array of the elements otherwise
json_initializer_list(init) ==
    IF \A i \in 1..Len(init) :
          /\ init[i].type = "array"
          /\ Len(init[i].elems) = 2
          /\ init[i].elems[1].type = "string"
    THEN JsonObject([k \in {init[i].elems[1].str : i \in 1..Len(init)} |->
                        init[CHOOSE i \in 1..Len(init) : init[i].elems[1].str = k].elems[2]])
    ELSE JsonArray(init)

\* the digits of a natural number
RECURSIVE Digits(_)
Digits(n) ==
    IF n < 10 THEN << DigitChars[n + 1] >>
    ELSE Digits(n \div 10) \o << DigitChars[(n % 10) + 1] >>

\* std::to_string of an int
to_string(n) == IF n < 0 THEN <<"-">> \o Digits(0 - n) ELSE Digits(n)

\* to_json(j, measure): the years become strings
Measure_to_json(measure) ==
    LET stringMap == [s \in {to_string(y) : y \in DOMAIN measure.values} |->
                         measure.values[CHOOSE y \in DOMAIN measure.values : to_string(y) = s]]
    IN  JsonObject([s \in DOMAIN stringMap |-> JsonNumber(stringMap[s])])

\* to_json(j, area): the braced list holds one element, the list of the two pairs
Area_to_json(area) ==
    LET names    == JsonObject([l \in DOMAIN area.names |-> JsonString(area.names[l])])
        measures == JsonObject([c \in DOMAIN area.measures |->
                                   Measure_to_json(area.measures[c])])
    IN  json_initializer_list(<<
            json_initializer_list(<<
                json_initializer_list(<< JsonString(<<"n","a","m","e","s">>), names >>),
                json_initializer_list(<< JsonString(<<"m","e","a","s","u","r","e","s">>),
                                         measures >>) >>) >>)

\* to_json(j, areas)
Areas_to_json(coll) == JsonObject([code \in DOMAIN coll |-> Area_to_json(coll[code])])

\* the keys of a JSON object in the order of its std::map
RECURSIVE SortedKeys(_)
SortedKeys(keys) ==
    IF keys = {} THEN <<>>
    ELSE << MinStr(keys) >> \o SortedKeys(keys \ {MinStr(keys)})

\* nlohmann::json::dump(): the text without white space; a number with no fraction is
\* written with ".0", and the strings of the model need no escape
RECURSIVE dump(_)
RECURSIVE dump_members(_, _)
RECURSIVE dump_elems(_, _)
dump(j) ==
    IF j.type = "string" THEN <<"\"">> \o j.str \o <<"\"">>
    ELSE IF j.type = "number" THEN to_string(j.num) \o <<".", "0">>
    ELSE IF j.type = "array" THEN <<"[">> \o dump_elems(j.elems, 1) \o <<"]">>
    ELSE <<"{">> \o dump_members(j.members, SortedKeys(DOMAIN j.members)) \o <<"}">>

dump_members(members, keys) ==
    IF keys = <<>> THEN <<>>
    ELSE <<"\"">> \o Head(keys) \o <<"\"", ":">> \o dump(members[Head(keys)]) \o
         (IF Len(keys) > 1 THEN <<",">> ELSE <<>>) \o dump_members(members, Tail(keys))

dump_elems(elems, i) ==
    IF i > Len(elems) THEN <<>>
    ELSE dump(elems[i]) \o (IF i < Len(elems) THEN <<",">> ELSE <<>>) \o
         dump_elems(elems, i + 1)

\* Areas::toJSON
Areas_toJSON(coll) ==
    IF coll # EmptyMap THEN dump(Areas_to_json(coll)) ELSE <<"{", "}">>

(***************************************************************************)
(* The table rendering.  A double that the rendering computes is held in   *)
(* millionths (the six digits that "%.6f" prints), rounded to the nearest. *)
(***************************************************************************)
Million == 1000000

Abs(n) == IF n < 0 THEN 0 - n ELSE n

\* the quotient num / den rounded to the nearest integer, for den > 0
Rounded(num, den) ==
    IF num < 0 THEN 0 - ((2 * (0 - num) + den) \div (2 * den))
    ELSE (2 * num + den) \div (2 * den)

\* the sum of the values of a map
RECURSIVE SumOf(_)
SumOf(values) ==
    IF DOMAIN values = {} THEN 0
    ELSE LET y == MinInt(DOMAIN values)
         IN  values[y] + SumOf([x \in (DOMAIN values) \ {y} |-> values[x]])

\* Measure::getAverage, in millionths
Measure_getAverage(m) ==
    IF DOMAIN m.values # {}
    THEN Rounded(SumOf(m.values) * Million, Cardinality(DOMAIN m.values))
    ELSE 0

\* Measure::getDifferenceAsPercentage, in millionths, for a first value above 0
Measure_getDifferenceAsPercentage(m) ==
    IF DOMAIN m.values # {}
    THEN LET firstValue == m.values[MinInt(DOMAIN m.values)]
         IN  Rounded(Measure_getDifference(m) * 100 * Million, firstValue)
    ELSE 0

\* Measure::getValueWidth of a double given in millionths
getValueWidth(micros) ==
    LET whole == Abs(micros) \div Million
    IN  IF micros >= Million THEN Len(Digits(whole)) + 7
        ELSE IF micros <= 0 - Million THEN Len(Digits(whole)) + 1 + 7
        ELSE 1 + 7

\* count spaces
RECURSIVE Spaces(_)
Spaces(count) == IF count <= 0 THEN <<>> ELSE <<" ">> \o Spaces(count - 1)

\* snprintf(buffer, formatWidth + 2, "%<formatWidth>? ", x) for an x whose text is given:
\* the text right-aligned in formatWidth columns and a space, cut to what the buffer holds
snprintf(text, formatWidth) ==
    LET whole == Spaces(formatWidth - Len(text)) \o text \o <<" ">>
    IN  SubSeq(whole, 1, IF Len(whole) < formatWidth + 1 THEN Len(whole) ELSE formatWidth + 1)

\* the text that "%.6f" prints for a double given in millionths
Fixed6(micros) ==
    LET fraction == Digits(Abs(micros) % Million)
    IN  (IF micros < 0 THEN <<"-">> ELSE <<>>) \o Digits(Abs(micros) \div Million) \o <<".">> \o
        [i \in 1..(6 - Len(fraction)) |-> "0"] \o fraction

\* Measure::formatYear
formatYear(year, formatWidth) == snprintf(to_string(year), formatWidth)

\* Measure::formatValue of a double given in millionths
formatValue(micros, formatWidth) == snprintf(Fixed6(micros), formatWidth)

\* Measure::formatHeading
formatHeading(heading, formatWidth) == snprintf(heading, formatWidth)

\* the years of the first loop of operator<<, from the year from on
RECURSIVE Measure_print_years(_, _)
Measure_print_years(values, years) ==
    IF years = {} THEN <<>>
    ELSE LET y == MinInt(years)
         IN  formatYear(y, getValueWidth(values[y] * Million)) \o
             Measure_print_years(values, years \ {y})

\* the values of the second loop of operator<<
RECURSIVE Measure_print_values(_, _)
Measure_print_values(values, years) ==
    IF years = {} THEN <<>>
    ELSE LET y == MinInt(years)
         IN  formatValue(values[y] * Million, getValueWidth(values[y] * Million)) \o
             Measure_print_values(values, years \ {y})

\* operator<<(stream, measure): what it writes to the stream
Measure_print(m) ==
    LET average              == Measure_getAverage(m)
        difference           == Measure_getDifference(m) * Million
        differencePercentage == Measure_getDifferenceAsPercentage(m)
    IN  m.label \o <<" ", "(">> \o m.code \o <<")", " ", "\n">> \o
        Measure_print_years(m.values, DOMAIN m.values) \o
        formatHeading(<<"A","v","e","r","a","g","e">>, getValueWidth(average)) \o
        formatHeading(<<"D","i","f","f",".">>, getValueWidth(difference)) \o
        formatHeading(<<"%"," ","D","i","f","f",".">>, getValueWidth(differencePercentage)) \o
        <<"\n">> \o
        Measure_print_values(m.values, DOMAIN m.values) \o
        formatValue(average, getValueWidth(average)) \o
        formatValue(difference, getValueWidth(difference)) \o
        formatValue(differencePercentage, getValueWidth(differencePercentage)) \o
        <<"\n">>

\* a heading that shows a name in another language when there is neither an English nor a
\* Welsh name
Area_print_heading_any(area) ==
    LET hasEnglishName == Area_hasName(area, <<"e","n","g">>)
        hasWelshName   == Area_hasName(area, <<"c","y","m">>)
    IN  (IF hasEnglishName /\ hasWelshName
         THEN area.names[<<"e","n","g">>] \o <<" ", "/", " ">> \o area.names[<<"c","y","m">>]
         ELSE IF hasEnglishName THEN area.names[<<"e","n","g">>]
         ELSE IF hasWelshName THEN area.names[<<"c","y","m">>]
         ELSE IF DOMAIN area.names # {} THEN area.names[MinStr(DOMAIN area.names)]
         ELSE <<"U","n","n","a","m","e","d">>) \o
        <<" ", "(">> \o area.authorityCode \o <<")", "\n">>

\* operator<<(stream, area) up to the first std::endl: the names and the authority code
Area_print_heading(area) ==
    LET hasEnglishName == Area_hasName(area, <<"e","n","g">>)
        hasWelshName   == Area_hasName(area, <<"c","y","m">>)
    IN  (IF hasEnglishName /\ hasWelshName
         THEN area.names[<<"e","n","g">>] \o <<" ", "/", " ">> \o area.names[<<"c","y","m">>]
         ELSE IF hasEnglishName THEN area.names[<<"e","n","g">>]
         ELSE IF hasWelshName THEN area.names[<<"c","y","m">>]
         ELSE <<"U","n","n","a","m","e","d">>) \o
        <<" ", "(">> \o area.authorityCode \o <<")", "\n">>

\* the for loop of operator<<(stream, area) over the measures in the order of their keys
RECURSIVE Area_print_measures(_, _)
Area_print_measures(measures, codes) ==
    IF codes = {} THEN <<>>
    ELSE LET c == MinStr(codes)
         IN  Measure_print(measures[c]) \o <<"\n">> \o
             Area_print_measures(measures, codes \ {c})

\* operator<<(stream, area): what it writes to the stream
Area_print(area) ==
    Area_print_heading(area) \o Area_print_measures(area.measures, DOMAIN area.measures)

\* operator<<(stream, areas): the areas in the order of their keys
RECURSIVE Areas_print(_, _)
Areas_print(coll, codes) ==
    IF codes = {} THEN <<>>
    ELSE LET c == MinStr(codes)
         IN  Area_print(coll[c]) \o Areas_print(coll, codes \ {c})

(***************************************************************************)
(* Inputs of the calls.                                                    *)
(***************************************************************************)
W1 == <<"W","1">>

W2 == <<"W","2">>

eng == <<"e","n","g">>

cym == <<"c","y","m">>

ENG == <<"E","N","G">>

Foo == <<"F","o","o">>

Bar == <<"B","a","r">>

pop == <<"p","o","p">>

POP == <<"P","O","P">>

den == <<"d","e","n">>

PopLabel == <<"P","o","p","u","l","a","t","i","o","n">>

DenLabel == <<"D","e","n","s","i","t","y">>

AuthCodeInputs == {W1, W2}

\* valid codes in both cases, a code that is too short and one with a digit
LangInputs == {eng, ENG, cym, <<"e","n">>, <<"e","1","g">>}

NameInputs == {Foo, Bar}

CodenameInputs == {pop, POP, den}

LabelInputs == {PopLabel, DenLabel}

YearInputs == {1991, 1992}

ValueInputs == {10, 15}

\* the fields joined by sep
RECURSIVE Join(_, _)
Join(fields, sep) ==
    IF fields = <<>> THEN <<>>
    ELSE IF Len(fields) = 1 THEN fields[1]
    ELSE fields[1] \o <<sep>> \o Join(Tail(fields), sep)

\* the text of a CSV file: every line is its fields joined by commas and ends with a newline
RECURSIVE Csv(_)
Csv(lines) ==
    IF lines = <<>> THEN <<>>
    ELSE Join(lines[1], ",") \o <<"\n">> \o Csv(Tail(lines))

Code == <<"c","o","d","e">>

w1 == <<"w","1">>

Y1991 == <<"1","9","9","1">>

Y1992 == <<"1","9","9","2">>

\* the data lines of areas.csv: well formed with one and with two lines; with a second line
\* whose English name is empty, followed by a line for the same area
AuthorityCodeCSVLineInputs ==
    { << <<W1, Foo, Bar>> >>,
      << <<W1, Bar, Foo>>, <<W2, Foo, Bar>> >>,
      << <<W2, Bar, Bar>>, <<W1, <<>>, Bar>>, <<W1, Foo, Foo>> >> }

\* the text of areas.csv: the heading line and the data lines
AuthorityCodeCSVText(lines) == Csv(<< <<Code, eng, cym>> >> \o lines)

AuthorityCodeCSVInputs == { AuthorityCodeCSVText(lines) : lines \in AuthorityCodeCSVLineInputs }

\* BethYw::InputFiles::AREAS.COLS
AREAS_COLS ==
    [c \in {"AUTH_CODE", "AUTH_NAME_ENG", "AUTH_NAME_CYM"} |->
        CASE c = "AUTH_CODE"     -> Code
          [] c = "AUTH_NAME_ENG" -> eng
          [] c = "AUTH_NAME_CYM" -> cym]

\* the column mapping of a year-columns CSV file of the measure pop
POP_COLS ==
    [c \in {"AUTH_CODE", "SINGLE_MEASURE_CODE", "SINGLE_MEASURE_NAME"} |->
        CASE c = "AUTH_CODE"           -> Code
          [] c = "SINGLE_MEASURE_CODE" -> pop
          [] c = "SINGLE_MEASURE_NAME" -> PopLabel]

\* a column mapping that declares two columns
SHORT_COLS ==
    [c \in {"AUTH_CODE", "AUTH_NAME_ENG"} |->
        CASE c = "AUTH_CODE"     -> Code
          [] c = "AUTH_NAME_ENG" -> eng]

\* the text of a year-columns file for the years 1991 and 1992: the heading line and the
\* data lines
AuthorityByYearCSVText(lines) == Csv(<< <<Code, Y1991, Y1992>> >> \o lines)

\* the data lines of year-columns files: every cell a number; a cell that is no number and a
\* trailing carriage return; a first data line whose last cell is empty
AuthorityByYearCSVLineInputs ==
    { << <<W1, <<"1","0">>, <<"1","5">> >> >>,
      << <<W1, <<"1","5",".","0">>, <<"x">> >>, <<W2, <<"1","0">>, <<"1","0","\r">> >> >>,
      << <<W1, <<"1","0",".","0">>, <<>> >>, <<W2, <<"1","5">>, <<"1","5">> >> >> }

AuthorityByYearCSVInputs ==
    { AuthorityByYearCSVText(lines) : lines \in AuthorityByYearCSVLineInputs }

AreasFilterInputs == { <<>>, << {W1} >> }

\* the three filters of a call: no restriction; one area, one measure and one year; a
\* measure filter that pop is not in
FilterInputs ==
    { [areas |-> <<>>, measures |-> << {} >>, years |-> << <<0, 0>> >>],
      [areas |-> << {W1} >>, measures |-> << {pop} >>, years |-> << <<1992, 1992>> >>],
      [areas |-> << {} >>, measures |-> << {den} >>, years |-> << <<1991, 1992>> >>] }

Value == <<"v","a","l","u","e">>

\* a row of a dataset that names its measure in every row
Row(area, name, code, label, year, data) ==
    [k \in {AreaKey, AreaNameKey, MeasureKey, MeasureNameKey, YearKey, DataKey} |->
        CASE k = AreaKey        -> JsonString(area)
          [] k = AreaNameKey    -> JsonString(name)
          [] k = MeasureKey     -> JsonString(code)
          [] k = MeasureNameKey -> JsonString(label)
          [] k = YearKey        -> JsonString(year)
          [] k = DataKey        -> JsonNumber(data)]

\* the row without the key k
Without(row, k) == [x \in (DOMAIN row) \ {k} |-> row[x]]

\* the JSON object of a file with the given rows
Json(rows) == [k \in {Value} |-> rows]

\* JSON files: one row; two rows of two areas; a second row without its value key; a file
\* without the key "value"
WelshStatsJSONInputs ==
    { Json(<< Row(W1, Foo, POP, PopLabel, Y1991, 10) >>),
      Json(<< Row(W1, Bar, pop, DenLabel, Y1992, 15),
              Row(W2, Foo, den, DenLabel, Y1991, 10) >>),
      Json(<< Row(W2, Bar, pop, PopLabel, Y1991, 15),
              Without(Row(W1, Foo, den, DenLabel, Y1992, 10), DataKey),
              Row(W1, Foo, den, DenLabel, Y1991, 10) >>),
      [k \in {Code} |-> <<>>] }

\* the single measure dataset has no measure keys in its rows
TrainsJSONInputs ==
    { Json(<< Without(Without(Row(W1, Foo, <<>>, <<>>, Y1992, 10), MeasureKey), MeasureNameKey) >>) }

\* sequences of setValue calls
ValueCallInputs == { <<>>, << <<1991, 10>> >>, << <<1992, 10>>, <<1991, 15>> >> }

\* a Measure after construction and a sequence of setValue calls
RECURSIVE MeasureOf(_, _, _)
MeasureOf(codename, label, calls) ==
    IF calls = <<>> THEN Measure(codename, label)
    ELSE LET n == Len(calls)
         IN  Measure_setValue(MeasureOf(codename, label, SubSeq(calls, 1, n - 1)),
                              calls[n][1], calls[n][2])

\* the codename and the label given to the constructor
ConstructorInputs == { <<pop, PopLabel>>, <<POP, DenLabel>>, <<den, DenLabel>> }

MeasureInputs ==
    { MeasureOf(c[1], c[2], calls) : c \in ConstructorInputs, calls \in ValueCallInputs }

\* sequences of setName calls
NameCallInputs == { <<>>, << <<eng, Foo>> >>, << <<ENG, Bar>>, <<cym, Bar>> >> }

\* sequences of setMeasure calls
MeasureCallInputs ==
    { <<>>,
      << <<pop, MeasureOf(pop, PopLabel, << <<1991, 10>> >>)>> >>,
      << <<POP, MeasureOf(POP, DenLabel, << <<1991, 15>>, <<1992, 15>> >>)>>,
         <<den, MeasureOf(den, DenLabel, << <<1992, 10>> >>)>> >> }

\* an Area after construction, a sequence of setName calls and one of setMeasure calls
RECURSIVE AreaOf(_, _, _)
AreaOf(code, nameCalls, measureCalls) ==
    IF measureCalls # <<>>
    THEN LET n == Len(measureCalls)
         IN  Area_setMeasure(AreaOf(code, nameCalls, SubSeq(measureCalls, 1, n - 1)),
                             measureCalls[n][1], measureCalls[n][2])
    ELSE IF nameCalls # <<>>
    THEN LET n == Len(nameCalls)
         IN  Area_setName(AreaOf(code, SubSeq(nameCalls, 1, n - 1), <<>>),
                          nameCalls[n][1], nameCalls[n][2])
    ELSE Area(code)

AreaInputs ==
    { AreaOf(c, ns, ms) : c \in AuthCodeInputs, ns \in NameCallInputs, ms \in MeasureCallInputs }

(***************************************************************************)
(* Inputs of the ingestion calls on their own: more files, mappings and    *)
(* filters than the calls above are given.                                 *)
(***************************************************************************)
\* further data lines of areas.csv: well formed with two lines for one area; with a lower-case
\* authority code; with a second line whose authority code is empty, whose Welsh name is
\* empty, and that has two fields only
IngestAuthorityCodeCSVLineInputs ==
    AuthorityCodeCSVLineInputs \cup
    { << <<W1, Foo, Bar>>, <<W2, Bar, Bar>>, <<W1, Bar, Foo>> >>,
      << <<w1, Foo, Bar>>, <<W2, Bar, Foo>> >>,
      << <<W1, Foo, Bar>>, << <<>>, Foo, Bar>>, <<W2, Foo, Bar>> >>,
      << <<W2, Foo, Bar>>, <<W1, Foo, <<>> >>, <<W1, Bar, Bar>> >>,
      << <<W2, Foo, Foo>>, <<W1, Foo>>, <<W1, Bar, Bar>> >> }

\* no filter, an empty filter, and a filter of one code in upper and in lower case
IngestAreasFilterInputs == { <<>>, << {} >>, << {W1} >>, << {w1} >> }

\* further data lines of year-columns files: the single line "W1,10.0,"; a second line whose
\* first cell is empty; a line with a lower-case authority code
IngestAuthorityByYearCSVLineInputs ==
    AuthorityByYearCSVLineInputs \cup
    { << <<W1, <<"1","0",".","0">>, <<>> >> >>,
      << <<W2, <<"1","0">>, <<"1","5">> >>, <<W1, <<>>, <<"1","5">> >> >>,
      << <<w1, <<"1","5">>, <<"1","0">> >>, <<W2, <<"1","0">>, <<"1","0">> >> >> }

\* further JSON files: a row with a lower-case authority code
IngestWelshStatsJSONInputs ==
    WelshStatsJSONInputs \cup
    { Json(<< Row(w1, Foo, pop, PopLabel, Y1991, 10),
              Row(W2, Bar, den, DenLabel, Y1992, 15) >>) }

\* the filters of a call: those above, and an area filter on its own with the code in
\* upper and in lower case
IngestFilterInputs ==
    FilterInputs \cup
    { [areas |-> << {W1} >>, measures |-> << {} >>, years |-> << <<0, 0>> >>],
      [areas |-> << {w1} >>, measures |-> << {} >>, years |-> << <<0, 0>> >>] }

\* a row with the given keys only
Only(row, keys) == [k \in keys |-> row[k]]

\* JSON files with rows that lack keys or have a year that is no number: a row for W2 with
\* its area key only, and a row for W1 in 1991 without name and value; a row for W1 with
\* its area and measure key only, and a row for W2 with the year "19a1"
FilterOrderJSONInputs ==
    { Json(<< Only(Row(W2, Bar, pop, PopLabel, Y1992, 15), {AreaKey}),
              Row(W1, Foo, pop, PopLabel, Y1992, 10),
              Only(Row(W1, Foo, pop, PopLabel, Y1991, 15), {AreaKey, MeasureKey, YearKey}) >>),
      Json(<< Row(W1, Foo, pop, PopLabel, Y1992, 15),
              Only(Row(W1, Foo, den, DenLabel, Y1992, 10), {AreaKey, MeasureKey}),
              Row(W2, Bar, pop, PopLabel, <<"1","9","a","1">>, 10) >>) }

\* a JSON file with two rows for one area, measure and year: the measure code is in upper
\* case in the first row, and the name, label and value differ
MergeJSONInputs ==
    { Json(<< Row(W1, Foo, POP, PopLabel, Y1991, 10),
              Row(W1, Bar, pop, DenLabel, Y1991, 15) >>) }

\* the year texts of rows: empty, with a sign, with a leading space, with a letter
YearTextInputs ==
    { <<>>, <<"-","5">>, <<"+","5">>, <<" ","5">>, <<"1","9","a","1">> }

\* JSON files of one row with such a year
YearTextJSONInputs ==
    { Json(<< Row(W1, Foo, pop, PopLabel, y, 10) >>) : y \in YearTextInputs }

\* year-columns files that are malformed: an empty stream; a heading whose year is no
\* number; a data line that has an authority code and no cells
MalformedAuthorityByYearCSVInputs ==
    { <<>>,
      Csv(<< <<Code, <<"1","9","a","1">> >>, <<W1, <<"1","0">> >> >>),
      Csv(<< <<Code, Y1991, Y1992>>, <<W1>> >>) }

(***************************************************************************)
(* Lookups that return a reference into the collection, or throw.          *)
(***************************************************************************)
\* Areas::getArea throws std::out_of_range
Areas_getArea_throws(coll, localAuthorityCode) == ~Has(coll, localAuthorityCode)

\* Area::getName throws std::out_of_range: names.at(langCode) is given the code as passed
Area_getName_throws(area, langCode) == ~Has(area.names, langCode)

\* Area::getName when it does not throw
Area_getName(area, langCode) == area.names[langCode]

\* Area::getMeasure throws std::out_of_range: measures.at(key) is given the key as passed
Area_getMeasure_throws(area, key) == ~Has(area.measures, key)

\* Area::getMeasure when it does not throw
Area_getMeasure(area, key) == area.measures[key]

\* the start of the message of the exception of Area::getMeasure
NoMeasureFound ==
    <<"N","o"," ","m","e","a","s","u","r","e"," ","f","o","u","n","d"," ",
      "m","a","t","c","h","i","n","g"," ">>

\* what() of the exception that Area::getMeasure throws
Area_getMeasure_what(key) == NoMeasureFound \o key

\* the collection after f has been applied to the Area that getArea(code) refers to
WithArea(coll, code, newArea) == MapPut(coll, code, newArea)

\* the area after its Measure that getMeasure(key) refers to has been replaced
WithMeasure(area, key, newMeasure) ==
    [area EXCEPT !.measures = MapPut(area.measures, key, newMeasure)]

(***************************************************************************)
(* The calls on the collection.  Each records itself in last.              *)
(***************************************************************************)
Init ==
    /\ areas = Areas_new
    /\ series = Measure(POP, PopLabel)
    /\ given = POP
    /\ last = [op |-> "init", arg |-> <<>>, err |-> "none", pre |-> Areas_new]
    /\ steps = 0

\* a call on the collection that ends in the collection newAreas
Call(op, arg, err, newAreas) ==
    /\ steps < MaxOps
    /\ steps' = steps + 1
    /\ areas' = newAreas
    /\ last' = [op |-> op, arg |-> arg, err |-> err, pre |-> areas]
    /\ UNCHANGED <<series, given>>

\* areas.setArea(code, area)
SetArea(code, area) ==
    Call("setArea", [code |-> code, area |-> area], "none", Areas_setArea(areas, code, area))

\* areas.getArea(code) = other
AssignArea(code, other) ==
    LET arg == [code |-> code, other |-> other]
    IN  IF Areas_getArea_throws(areas, code)
        THEN Call("assignArea", arg, "out_of_range", areas)
        ELSE Call("assignArea", arg, "none",
                  WithArea(areas, code, Area_assign(areas[code], other)))

\* areas.getArea(code).setName(lang, name)
SetName(code, lang, name) ==
    LET arg == [code |-> code, lang |-> lang, name |-> name]
    IN  IF Areas_getArea_throws(areas, code)
        THEN Call("setName", arg, "out_of_range", areas)
        ELSE IF Area_setName_throws(lang)
        THEN Call("setName", arg, "invalid_argument", areas)
        ELSE Call("setName", arg, "none",
                  WithArea(areas, code, Area_setName(areas[code], lang, name)))

\* areas.getArea(code).setMeasure(codename, m)
SetMeasure(code, codename, m) ==
    LET arg == [code |-> code, codename |-> codename, measure |-> m]
    IN  IF Areas_getArea_throws(areas, code)
        THEN Call("setMeasure", arg, "out_of_range", areas)
        ELSE Call("setMeasure", arg, "none",
                  WithArea(areas, code, Area_setMeasure(areas[code], codename, m)))

\* areas.getArea(code).getName(langCode): result is <<>> when the call throws
GetName(code, langCode) ==
    IF Areas_getArea_throws(areas, code) \/ Area_getName_throws(areas[code], langCode)
    THEN Call("getName", [code |-> code, lang |-> langCode, result |-> <<>>],
              "out_of_range", areas)
    ELSE Call("getName",
              [code |-> code, lang |-> langCode,
               result |-> << Area_getName(areas[code], langCode) >>],
              "none", areas)

\* areas.getArea(code).getMeasure(key): result is <<>> when the call throws, and what is
\* the message of the exception of getMeasure
GetMeasure(code, key) ==
    IF Areas_getArea_throws(areas, code)
    THEN Call("getMeasure", [code |-> code, key |-> key, result |-> <<>>, what |-> <<>>],
              "out_of_range", areas)
    ELSE IF Area_getMeasure_throws(areas[code], key)
    THEN Call("getMeasure",
              [code |-> code, key |-> key, result |-> <<>>,
               what |-> Area_getMeasure_what(key)],
              "out_of_range", areas)
    ELSE Call("getMeasure",
              [code |-> code, key |-> key,
               result |-> << Area_getMeasure(areas[code], key) >>, what |-> <<>>],
              "none", areas)

\* areas.getArea(code).getMeasure(key).setValue(year, value)
SetValue(code, key, year, value) ==
    LET arg == [code |-> code, key |-> key, year |-> year, value |-> value]
    IN  IF Areas_getArea_throws(areas, code) \/ Area_getMeasure_throws(areas[code], key)
        THEN Call("setValue", arg, "out_of_range", areas)
        ELSE Call("setValue", arg, "none",
                  WithArea(areas, code,
                      WithMeasure(areas[code], key,
                          Measure_setValue(areas[code].measures[key], year, value))))

\* areas.getArea(code).getMeasure(key).setLabel(label)
SetLabel(code, key, label) ==
    LET arg == [code |-> code, key |-> key, label |-> label]
    IN  IF Areas_getArea_throws(areas, code) \/ Area_getMeasure_throws(areas[code], key)
        THEN Call("setLabel", arg, "out_of_range", areas)
        ELSE Call("setLabel", arg, "none",
                  WithArea(areas, code,
                      WithMeasure(areas[code], key,
                          Measure_setLabel(areas[code].measures[key], label))))

\* areas.getArea(code).getMeasure(key) = other
AssignMeasure(code, key, other) ==
    LET arg == [code |-> code, key |-> key, other |-> other]
    IN  IF Areas_getArea_throws(areas, code) \/ Area_getMeasure_throws(areas[code], key)
        THEN Call("assignMeasure", arg, "out_of_range", areas)
        ELSE Call("assignMeasure", arg, "none",
                  WithArea(areas, code,
                      WithMeasure(areas[code], key,
                          Measure_assign(areas[code].measures[key], other))))

\* areas.populateFromAuthorityCodeCSV(is, cols, areasFilter)
PopulateFromAuthorityCodeCSV(text, cols, areasFilter) ==
    LET r == populateFromAuthorityCodeCSV(areas, text, cols, areasFilter)
    IN  Call("populateFromAuthorityCodeCSV",
             [text |-> text, cols |-> cols, areasFilter |-> areasFilter], r.err, r.areas)

\* areas.populateFromAuthorityByYearCSV(is, cols, areasFilter, measuresFilter, yearsFilter)
PopulateFromAuthorityByYearCSV(text, cols, areasFilter, measuresFilter, yearsFilter) ==
    LET r == populateFromAuthorityByYearCSV(areas, text, cols, areasFilter, measuresFilter,
                                            yearsFilter)
    IN  Call("populateFromAuthorityByYearCSV",
             [text |-> text, cols |-> cols, areasFilter |-> areasFilter,
              measuresFilter |-> measuresFilter, yearsFilter |-> yearsFilter], r.err, r.areas)

\* areas.populateFromWelshStatsJSON(is, cols, areasFilter, measuresFilter, yearsFilter)
PopulateFromWelshStatsJSON(j, cols, areasFilter, measuresFilter, yearsFilter) ==
    LET r == populateFromWelshStatsJSON(areas, j, cols, areasFilter, measuresFilter,
                                        yearsFilter)
    IN  Call("populateFromWelshStatsJSON",
             [json |-> j, cols |-> cols, areasFilter |-> areasFilter,
              measuresFilter |-> measuresFilter, yearsFilter |-> yearsFilter], r.err, r.areas)

Next ==
    \/ \E code \in AuthCodeInputs, area \in AreaInputs : SetArea(code, area)
    \/ \E code \in AuthCodeInputs, other \in AreaInputs : AssignArea(code, other)
    \/ \E code \in AuthCodeInputs, lang \in LangInputs, name \in NameInputs :
          SetName(code, lang, name)
    \/ \E code \in AuthCodeInputs, codename \in CodenameInputs, m \in MeasureInputs :
          SetMeasure(code, codename, m)
    \/ \E code \in AuthCodeInputs, langCode \in LangInputs : GetName(code, langCode)
    \/ \E code \in AuthCodeInputs, key \in CodenameInputs : GetMeasure(code, key)
    \/ \E code \in AuthCodeInputs, key \in CodenameInputs, year \in YearInputs, value \in ValueInputs :
          SetValue(code, key, year, value)
    \/ \E code \in AuthCodeInputs, key \in CodenameInputs, label \in LabelInputs :
          SetLabel(code, key, label)
    \/ \E code \in AuthCodeInputs, key \in CodenameInputs, other \in MeasureInputs :
          AssignMeasure(code, key, other)
    \/ \E text \in AuthorityCodeCSVInputs, cols \in {AREAS_COLS, SHORT_COLS},
          areasFilter \in AreasFilterInputs :
          PopulateFromAuthorityCodeCSV(text, cols, areasFilter)
    \/ \E text \in AuthorityByYearCSVInputs, cols \in {POP_COLS, SHORT_COLS}, f \in FilterInputs :
          PopulateFromAuthorityByYearCSV(text, cols, f.areas, f.measures, f.years)
    \/ \E j \in WelshStatsJSONInputs, f \in FilterInputs :
          PopulateFromWelshStatsJSON(j, POPDEN_COLS, f.areas, f.measures, f.years)
    \/ \E j \in TrainsJSONInputs, areasFilter \in AreasFilterInputs :
          PopulateFromWelshStatsJSON(j, TRAINS_COLS, areasFilter, << {} >>, << <<0, 0>> >>)

Spec == Init /\ [][Next]_vars

(***************************************************************************)
(* The ingestion calls on their own, on a collection that earlier          *)
(* ingestion calls have filled.                                            *)
(***************************************************************************)
NextIngest ==
    \/ \E lines \in IngestAuthorityCodeCSVLineInputs,
          cols \in {AREAS_COLS, SHORT_COLS, POPDEN_COLS},
          areasFilter \in IngestAreasFilterInputs :
          PopulateFromAuthorityCodeCSV(AuthorityCodeCSVText(lines), cols, areasFilter)
    \/ \E lines \in IngestAuthorityByYearCSVLineInputs,
          cols \in {POP_COLS, SHORT_COLS, TRAINS_COLS},
          f \in IngestFilterInputs :
          PopulateFromAuthorityByYearCSV(AuthorityByYearCSVText(lines), cols,
                                         f.areas, f.measures, f.years)
    \/ \E text \in MalformedAuthorityByYearCSVInputs, f \in FilterInputs :
          PopulateFromAuthorityByYearCSV(text, POP_COLS, f.areas, f.measures, f.years)
    \/ \E j \in IngestWelshStatsJSONInputs \cup FilterOrderJSONInputs \cup MergeJSONInputs,
          f \in IngestFilterInputs :
          PopulateFromWelshStatsJSON(j, POPDEN_COLS, f.areas, f.measures, f.years)
    \/ \E j \in YearTextJSONInputs, f \in FilterInputs :
          PopulateFromWelshStatsJSON(j, POPDEN_COLS, f.areas, f.measures, f.years)
    \/ \E j \in TrainsJSONInputs, areasFilter \in IngestAreasFilterInputs :
          PopulateFromWelshStatsJSON(j, TRAINS_COLS, areasFilter, << {} >>, << <<0, 0>> >>)

SpecIngest == Init /\ [][NextIngest]_vars

(***************************************************************************)
(* The calls of Areas::populate.  The result of populate is that of the    *)
(* routine it hands over to.  Where the behaviour of a call is undefined   *)
(* (a read of the year range through a null pointer) the call ends in one  *)
(* of the outcomes that a build can produce: the read faults and the       *)
(* process is killed ("SIGSEGV"), or the read yields the two words found   *)
(* at that address and the call goes on with them as its year range.       *)
(***************************************************************************)
\* the words that a read through a null pointer may yield
NullReadInputs == { <<0, 0>>, <<1992, 1992>> }

\* the stream, format and mapping of a populate call: the three formats with the mappings of
\* their datasets, a format that is none of the three, and a stream that is not good
SourceInputs ==
    { [good |-> TRUE, type |-> "AuthorityCodeCSV", input |-> text, cols |-> AREAS_COLS] :
          text \in AuthorityCodeCSVInputs } \cup
    { [good |-> TRUE, type |-> "AuthorityByYearCSV", input |-> text, cols |-> POP_COLS] :
          text \in AuthorityByYearCSVInputs } \cup
    { [good |-> g, type |-> t, input |-> text, cols |-> POP_COLS] :
          g \in {FALSE}, t \in {"AuthorityByYearCSV"},
          text \in { AuthorityByYearCSVText(<< <<W1, <<"1","0">>, <<"1","5">> >> >>) } } \cup
    { [good |-> g, type |-> t, input |-> text, cols |-> POP_COLS] :
          g \in {TRUE}, t \in {"None"},
          text \in { AuthorityByYearCSVText(<< <<W1, <<"1","0">>, <<"1","5">> >> >>) } }

JSONSourceInputs ==
    { [good |-> TRUE, type |-> "WelshStatsJSON", input |-> j, cols |-> POPDEN_COLS] :
          j \in WelshStatsJSONInputs }

\* the filters of a populate call: the default arguments; empty sets and the range (0,0);
\* an area filter on its own; an area filter with the other filters empty
PopulateFilterInputs ==
    { [areas |-> <<>>, measures |-> <<>>, years |-> <<>>],
      [areas |-> << {} >>, measures |-> << {} >>, years |-> << <<0, 0>> >>],
      [areas |-> << {W1} >>, measures |-> <<>>, years |-> <<>>],
      [areas |-> << {W1} >>, measures |-> << {} >>, years |-> << <<0, 0>> >>] }

\* a populate call that ended as r says
Populated(op, arg, r) ==
    Call(op, arg, IF r.err = "undefined" THEN "SIGSEGV" ELSE r.err, r.areas)

\* areas.populate(is, type, cols)
Populate(src) ==
    \/ Populated("populate", src,
                 populate(areas, src.good, src.input, src.type, src.cols))
    \/ \E words \in NullReadInputs :
          /\ populate(areas, src.good, src.input, src.type, src.cols).err = "undefined"
          /\ Populated("populate", src,
                       populate_filtered(areas, src.good, src.input, src.type, src.cols,
                                         <<>>, <<>>, << words >>))

\* the arguments of a populate call with filters
FilteredArg(src, f) ==
    [good |-> src.good, type |-> src.type, input |-> src.input, cols |-> src.cols,
     areasFilter |-> f.areas, measuresFilter |-> f.measures, yearsFilter |-> f.years]

\* areas.populate(is, type, cols, areasFilter, measuresFilter, yearsFilter)
PopulateFiltered(src, f) ==
    \/ Populated("populate_filtered", FilteredArg(src, f),
                 populate_filtered(areas, src.good, src.input, src.type, src.cols,
                                   f.areas, f.measures, f.years))
    \/ \E words \in NullReadInputs :
          /\ populate_filtered(areas, src.good, src.input, src.type, src.cols,
                               f.areas, f.measures, f.years).err = "undefined"
          /\ Populated("populate_filtered", FilteredArg(src, f),
                       populate_filtered(areas, src.good, src.input, src.type, src.cols,
                                         f.areas, f.measures, << words >>))

NextPopulate ==
    \/ \E src \in SourceInputs : Populate(src)
    \/ \E src \in JSONSourceInputs : Populate(src)
    \/ \E src \in SourceInputs, f \in PopulateFilterInputs : PopulateFiltered(src, f)
    \/ \E src \in JSONSourceInputs, f \in PopulateFilterInputs : PopulateFiltered(src, f)

SpecPopulate == Init /\ [][NextPopulate]_vars

(***************************************************************************)
(* The export of a collection that setArea calls have filled.              *)
(***************************************************************************)
fra == <<"f","r","a">>

\* sequences of setName calls: those above; a Welsh name on its own; a name in another
\* language on its own, and with the English and the Welsh name
ExportNameCallInputs ==
    NameCallInputs \cup
    { << <<cym, Foo>> >>,
      << <<fra, Bar>> >>,
      << <<fra, Bar>>, <<eng, Foo>> >>,
      << <<eng, Bar>>, <<fra, Foo>>, <<cym, Foo>> >> }

ExportAreaInputs ==
    { AreaOf(c, ns, ms) :
          c \in AuthCodeInputs, ns \in ExportNameCallInputs, ms \in MeasureCallInputs }

\* areas.toJSON()
ToJSON == Call("toJSON", [result |-> Areas_toJSON(areas)], "none", areas)

\* stream << areas.getArea(code)
PrintArea(code) ==
    IF Areas_getArea_throws(areas, code)
    THEN Call("printArea", [code |-> code, result |-> <<>>], "out_of_range", areas)
    ELSE Call("printArea", [code |-> code, result |-> Area_print(areas[code])], "none", areas)

\* stream << areas
PrintAreas == Call("printAreas", [result |-> Areas_print(areas, DOMAIN areas)], "none", areas)

NextExport ==
    \/ \E code \in AuthCodeInputs, area \in ExportAreaInputs : SetArea(code, area)
    \/ ToJSON
    \/ \E code \in AuthCodeInputs : PrintArea(code)
    \/ PrintAreas

SpecExport == Init /\ [][NextExport]_vars

(***************************************************************************)
(* The calls on one Measure object held by the caller.                     *)
(***************************************************************************)
\* a call on series that ends in the Measure newSeries
SeriesCall(op, arg, newSeries, newGiven) ==
    /\ series' = newSeries
    /\ given' = newGiven
    /\ last' = [op |-> op, arg |-> arg, err |-> "none", pre |-> series]
    /\ UNCHANGED <<areas, steps>>

\* Measure series(codename, label)
SeriesConstruct(codename, label) ==
    SeriesCall("Measure", [codename |-> codename, label |-> label],
               Measure(codename, label), codename)

\* series.setLabel(label)
SeriesSetLabel(label) ==
    SeriesCall("setLabel", [label |-> label], Measure_setLabel(series, label), given)

\* series.setValue(year, value)
SeriesSetValue(year, value) ==
    SeriesCall("setValue", [year |-> year, value |-> value],
               Measure_setValue(series, year, value), given)

\* series = other
SeriesAssign(other) ==
    SeriesCall("assign", [other |-> other], Measure_assign(series, other), given)

\* series.getDifference()
SeriesGetDifference ==
    SeriesCall("getDifference", [result |-> Measure_getDifference(series)], series, given)

NextMeasure ==
    \/ \E codename \in CodenameInputs \cup {<<"P","o","P","1">>}, label \in LabelInputs :
          SeriesConstruct(codename, label)
    \/ \E label \in LabelInputs : SeriesSetLabel(label)
    \/ \E year \in YearInputs, value \in ValueInputs : SeriesSetValue(year, value)
    \/ \E other \in MeasureInputs : SeriesAssign(other)
    \/ SeriesGetDifference

SpecMeasure == Init /\ [][NextMeasure]_vars

(***************************************************************************)
(* What a merge is, stated per key.                                        *)
(***************************************************************************)
\* result holds, for every key of either map, other's entry if other has one, else self's
IsOverride(result, self, other) ==
    /\ DOMAIN result = (DOMAIN self) \cup (DOMAIN other)
    /\ \A k \in DOMAIN result :
          result[k] = IF k \in DOMAIN other THEN other[k] ELSE self[k]

\* the values of the series stored under key c of a measures map, none if there is no such series
ValuesAt(measures, c) == IF c \in DOMAIN measures THEN measures[c].values ELSE EmptyMap

\* result holds a series for every measure code of either map, each the year-wise override
IsMeasuresMerge(result, self, other) ==
    /\ DOMAIN result = (DOMAIN self) \cup (DOMAIN other)
    /\ \A c \in DOMAIN result :
          IsOverride(result[c].values, ValuesAt(self, c), ValuesAt(other, c))

\* a and b are equal ignoring letter case
EqualIgnoringCase(a, b) ==
    /\ Len(a) = Len(b)
    /\ \A i \in 1..Len(a) :
          \/ a[i] = b[i]
          \/ \E j \in 1..Len(UpperChars) :
                {a[i], b[i]} = {UpperChars[j], LowerChars[j]}

\* low is str with every upper-case letter replaced by its lower-case letter
IsLowerCaseFormOf(low, str) ==
    /\ Len(low) = Len(str)
    /\ \A i \in 1..Len(str) :
          IF IsUpperChar(str[i])
          THEN \E j \in 1..Len(UpperChars) : UpperChars[j] = str[i] /\ LowerChars[j] = low[i]
          ELSE low[i] = str[i]

(***************************************************************************)
(* C1.  After Areas::setArea(code, area): if no area was stored under      *)
(* code the collection maps code to a copy of area; otherwise the stored   *)
(* area becomes the merge of itself with area, the incoming names and year *)
(* values winning on every conflict and the other names, measures and      *)
(* years of the stored area being kept.  Every other entry is unchanged.   *)
(***************************************************************************)
C1_SetAreaInsertsOrMerges ==
    last.op = "setArea" =>
        LET code == last.arg.code
            area == last.arg.area
            pre  == last.pre
        IN  /\ DOMAIN areas = (DOMAIN pre) \cup {code}
            /\ \A k \in (DOMAIN pre) \ {code} : areas[k] = pre[k]
            /\ code \notin DOMAIN pre => areas[code] = area
            /\ code \in DOMAIN pre =>
                  /\ IsOverride(areas[code].names, pre[code].names, area.names)
                  /\ IsMeasuresMerge(areas[code].measures, pre[code].measures, area.measures)
                  /\ \A c \in DOMAIN pre[code].measures \ DOMAIN area.measures :
                        areas[code].measures[c] = pre[code].measures[c]

\* setArea onto a stored area with a name conflict, a year conflict, and a name, a measure
\* and a year that only the stored area has
C1_Witness ==
    /\ last.op = "setArea"
    /\ last.arg.code \in DOMAIN last.pre
    /\ LET old == last.pre[last.arg.code]
           new == last.arg.area
       IN  /\ \E l \in DOMAIN old.names \cap DOMAIN new.names : old.names[l] # new.names[l]
           /\ (DOMAIN old.names) \ (DOMAIN new.names) # {}
           /\ (DOMAIN old.measures) \ (DOMAIN new.measures) # {}
           /\ \E c \in DOMAIN old.measures \cap DOMAIN new.measures :
                 /\ \E y \in DOMAIN old.measures[c].values \cap DOMAIN new.measures[c].values :
                       old.measures[c].values[y] # new.measures[c].values[y]
                 /\ (DOMAIN old.measures[c].values) \ (DOMAIN new.measures[c].values) # {}

(***************************************************************************)
(* C2.  Merging Area other into Area self (Area::operator=) leaves         *)
(* self.names equal to the old names of self overridden by the names of    *)
(* other per language code, and self.measures holding, for every measure   *)
(* code of either area, the year-wise merge of the two series in which the *)
(* value of other wins on a shared year and the years and measures that    *)
(* only self has are kept.                                                 *)
(***************************************************************************)
C2_AreaMergeOverrides ==
    (last.op = "assignArea" /\ last.err = "none") =>
        LET self   == last.pre[last.arg.code]
            other  == last.arg.other
            result == areas[last.arg.code]
        IN  /\ IsOverride(result.names, self.names, other.names)
            /\ IsMeasuresMerge(result.measures, self.measures, other.measures)

\* a merge where both areas have a name for one language and a value for one year of one
\* measure, and self has a measure and a year that other lacks
C2_Witness ==
    /\ last.op = "assignArea"
    /\ last.err = "none"
    /\ LET self  == last.pre[last.arg.code]
           other == last.arg.other
       IN  /\ \E l \in DOMAIN self.names \cap DOMAIN other.names : self.names[l] # other.names[l]
           /\ (DOMAIN self.measures) \ (DOMAIN other.measures) # {}
           /\ \E c \in DOMAIN self.measures \cap DOMAIN other.measures :
                 /\ \E y \in DOMAIN self.measures[c].values \cap DOMAIN other.measures[c].values :
                       self.measures[c].values[y] # other.measures[c].values[y]
                 /\ (DOMAIN self.measures[c].values) \ (DOMAIN other.measures[c].values) # {}

(***************************************************************************)
(* C3.  Merging Measure other into Measure self (Measure::operator=) makes *)
(* the value of self for every year of other equal to the value of other,  *)
(* leaves the value of every year that only self has unchanged, and the    *)
(* resulting set of years is the union of both.                            *)
(***************************************************************************)
C3_MeasureMergeOverrides ==
    (last.op = "assign") =>
        LET self  == last.pre
            other == last.arg.other
        IN  /\ \A y \in DOMAIN other.values : series.values[y] = other.values[y]
            /\ \A y \in (DOMAIN self.values) \ (DOMAIN other.values) :
                  series.values[y] = self.values[y]
            /\ DOMAIN series.values = (DOMAIN self.values) \cup (DOMAIN other.values)

\* a merge where a shared year has different values and each series has a year of its own
C3_Witness ==
    /\ last.op = "assign"
    /\ \E y \in DOMAIN last.pre.values \cap DOMAIN last.arg.other.values :
          last.pre.values[y] # last.arg.other.values[y]
    /\ (DOMAIN last.pre.values) \ (DOMAIN last.arg.other.values) # {}

(***************************************************************************)
(* C4.  When Area::setMeasure is called with a code that equals, ignoring  *)
(* letter case, the code an earlier setMeasure call stored a series under, *)
(* the area holds one series for that code (size() counts it once) whose   *)
(* values are those of the second call for the years both series have and  *)
(* those of each series for the years only that series has.                *)
(***************************************************************************)
C4_SetMeasureTwiceMerges ==
    (last.op = "setMeasure" /\ last.err = "none") =>
        LET before == last.pre[last.arg.code]
            after  == areas[last.arg.code]
            second == last.arg.measure
        IN  \A k \in DOMAIN before.measures :
                EqualIgnoringCase(k, last.arg.codename) =>
                    /\ Area_size(after) = Area_size(before)
                    /\ k \in DOMAIN after.measures
                    /\ IsOverride(after.measures[k].values, before.measures[k].values,
                                  second.values)

\* the second call gives the code in the other letter case, and the two series share a year
\* with different values and each have a year of their own
C4_Witness ==
    /\ last.op = "setMeasure"
    /\ last.err = "none"
    /\ \E k \in DOMAIN last.pre[last.arg.code].measures :
          /\ EqualIgnoringCase(k, last.arg.codename)
          /\ k # last.arg.codename
          /\ LET first  == last.pre[last.arg.code].measures[k].values
                 second == last.arg.measure.values
             IN  /\ \E y \in DOMAIN first \cap DOMAIN second : first[y] # second[y]
                 /\ (DOMAIN first) \ (DOMAIN second) # {}

(***************************************************************************)
(* C5.  Merging Area A into Area B is idempotent: the names and the        *)
(* measure values of B after merging A into it twice are those after       *)
(* merging A into it once.                                                 *)
(***************************************************************************)
C5_AreaMergeIdempotent ==
    (last.op = "assignArea" /\ last.err = "none") =>
        LET once  == areas[last.arg.code]
            twice == Area_assign(once, last.arg.other)
        IN  /\ twice.names = once.names
            /\ DOMAIN twice.measures = DOMAIN once.measures
            /\ \A c \in DOMAIN once.measures :
                  twice.measures[c].values = once.measures[c].values

\* a first merge that changed a name and a value of B
C5_Witness ==
    /\ last.op = "assignArea"
    /\ last.err = "none"
    /\ LET b    == last.pre[last.arg.code]
           once == areas[last.arg.code]
       IN  /\ once.names # b.names
           /\ \E c \in DOMAIN b.measures :
                 /\ once.measures[c].values # b.measures[c].values
                 /\ b.measures[c].values # EmptyMap

(***************************************************************************)
(* C10.  The code of a Measure is the lower-case form of the codename      *)
(* given to its constructor, and it stays that value after any sequence of *)
(* setLabel, setValue and merge calls.                                     *)
(***************************************************************************)
C10_CodeIsLowerCaseOfGiven == IsLowerCaseFormOf(series.code, given)

\* a Measure constructed with an upper-case codename, after a merge with a series of another code
C10_Witness ==
    /\ given = POP
    /\ series.code = pop
    /\ last.op = "assign"
    /\ last.arg.other.code = den
    /\ DOMAIN series.values # {}

(***************************************************************************)
(* C6.  Nothing is ever deleted by a call, failing calls included: every   *)
(* area code, language code, measure code and year that was in the         *)
(* collection before a call is in it after the call (and so at every later *)
(* step).                                                                  *)
(***************************************************************************)
C6_NothingDeleted ==
    \A k \in DOMAIN last.pre :
        /\ k \in DOMAIN areas
        /\ DOMAIN last.pre[k].names \subseteq DOMAIN areas[k].names
        /\ \A c \in DOMAIN last.pre[k].measures :
              /\ c \in DOMAIN areas[k].measures
              /\ DOMAIN last.pre[k].measures[c].values
                    \subseteq DOMAIN areas[k].measures[c].values

\* an ingestion call that failed after it had committed a row, on a collection that held
\* names, measures and years
C6_Witness ==
    /\ last.op = "populateFromWelshStatsJSON"
    /\ last.err = "runtime_error"
    /\ areas # last.pre
    /\ \E k \in DOMAIN last.pre :
          /\ DOMAIN last.pre[k].names # {}
          /\ \E c \in DOMAIN last.pre[k].measures : DOMAIN last.pre[k].measures[c].values # {}

(***************************************************************************)
(* C7.  Every key of the measures map of an Area equals the code of the    *)
(* series stored under it, in every reachable state, also after            *)
(* setMeasure(codename, series) with a codename that differs from the code *)
(* of the series.                                                          *)
(***************************************************************************)
C7_MeasureKeyIsCode ==
    \A k \in DOMAIN areas :
        \A c \in DOMAIN areas[k].measures : areas[k].measures[c].code = c

(***************************************************************************)
(* C8.  Every key of the areas map of the collection equals the            *)
(* authorityCode of the Area stored under it, in every reachable state,    *)
(* also after setArea(code, area) with a code that differs from the        *)
(* authority code of the area.                                             *)
(***************************************************************************)
C8_AreaKeyIsAuthorityCode ==
    \A k \in DOMAIN areas : areas[k].authorityCode = k

(***************************************************************************)
(* C9.  Every key of the names map of an Area is exactly 3 lower-case      *)
(* letters, in every reachable state, failing setName calls included.      *)
(***************************************************************************)
C9_NameKeysAreThreeLowerCaseLetters ==
    \A k \in DOMAIN areas :
        \A l \in DOMAIN areas[k].names :
            /\ Len(l) = 3
            /\ \A i \in 1..Len(l) : IsLowerChar(l[i])

\* a setName with an upper-case language code on a stored area that an ingestion call
\* or a merge has given names
C9_Witness ==
    /\ last.op = "setName"
    /\ last.err = "none"
    /\ last.arg.lang = ENG
    /\ DOMAIN areas[last.arg.code].names = {eng, cym}

(***************************************************************************)
(* Helpers of the claims about look-ups.                                   *)
(***************************************************************************)
\* str is exactly 3 letters
IsThreeLetters(str) ==
    /\ Len(str) = 3
    /\ \A i \in 1..Len(str) : IsUpperChar(str[i]) \/ IsLowerChar(str[i])

\* part occurs in text
Contains(text, part) ==
    \E i \in 1..(Len(text) - Len(part) + 1) : SubSeq(text, i, i + Len(part) - 1) = part

\* the language codes and measure codes that a look-up is tried with
LookupLangInputs == LangInputs \cup {<<"E","n","g">>}

LookupCodenameInputs == CodenameInputs \cup {<<"P","o","p">>}

(***************************************************************************)
(* C11.  For every 3-letter alphabetic language code L and every string s, *)
(* after setName(L, s), getName(L') returns s for every L' that equals L   *)
(* ignoring letter case.                                                   *)
(***************************************************************************)
C11_SetNameGetNameRoundTrip ==
    (last.op = "setName" /\ last.err = "none") =>
        \A other \in LookupLangInputs :
            EqualIgnoringCase(other, last.arg.lang) =>
                /\ ~Area_getName_throws(areas[last.arg.code], other)
                /\ Area_getName(areas[last.arg.code], other) = last.arg.name

(***************************************************************************)
(* C12.  Area::setName(lang, name) fails with std::invalid_argument        *)
(* exactly when lang is not 3 alphabetic characters, and a failing call    *)
(* leaves the names map (and the whole collection) unchanged; a succeeding *)
(* call stores name under the lower-case form of lang and changes no other *)
(* name.                                                                   *)
(***************************************************************************)
C12_SetNameValidatesAndStores ==
    (last.op = "setName" /\ last.arg.code \in DOMAIN last.pre) =>
        LET lang   == last.arg.lang
            before == last.pre[last.arg.code]
            after  == areas[last.arg.code]
        IN  /\ last.err \in {"none", "invalid_argument"}
            /\ (last.err = "invalid_argument") <=> ~IsThreeLetters(lang)
            /\ last.err = "invalid_argument" => areas = last.pre
            /\ last.err = "none" =>
                  /\ \E low \in DOMAIN after.names :
                        /\ IsLowerCaseFormOf(low, lang)
                        /\ after.names[low] = last.arg.name
                        /\ DOMAIN after.names = (DOMAIN before.names) \cup {low}
                        /\ \A k \in (DOMAIN before.names) \ {low} :
                              after.names[k] = before.names[k]
                  /\ after.measures = before.measures
                  /\ \A k \in (DOMAIN last.pre) \ {last.arg.code} : areas[k] = last.pre[k]

\* a call with a code of 3 characters one of which is a digit, on an area that has names
C12_Witness ==
    /\ last.op = "setName"
    /\ last.arg.code \in DOMAIN last.pre
    /\ last.arg.lang = <<"e","1","g">>
    /\ last.err = "invalid_argument"
    /\ DOMAIN last.pre[last.arg.code].names = {eng, cym}

(***************************************************************************)
(* C13.  Area::getMeasure is case-insensitive: after setMeasure(c, m),     *)
(* getMeasure(c') returns the stored series for every c' that equals c     *)
(* ignoring letter case; when no series is stored for the code it fails    *)
(* with std::out_of_range whose message contains the requested code; and   *)
(* in neither case does it change the area.                                *)
(***************************************************************************)
C13_GetMeasureIgnoresCase ==
    /\ (last.op = "setMeasure" /\ last.err = "none") =>
          LET area == areas[last.arg.code]
          IN  \A other \in LookupCodenameInputs :
                  EqualIgnoringCase(other, last.arg.codename) =>
                      /\ ~Area_getMeasure_throws(area, other)
                      /\ \E k \in DOMAIN area.measures :
                            /\ IsLowerCaseFormOf(k, last.arg.codename)
                            /\ Area_getMeasure(area, other) = area.measures[k]
    /\ (last.op = "getMeasure" /\ last.arg.code \in DOMAIN last.pre) =>
          /\ areas = last.pre
          /\ (\A k \in DOMAIN last.pre[last.arg.code].measures :
                 ~EqualIgnoringCase(k, last.arg.key)) =>
                    /\ last.err = "out_of_range"
                    /\ Contains(last.arg.what, last.arg.key)

(***************************************************************************)
(* C14.  Measure::getDifference returns the value of the greatest stored   *)
(* year minus the value of the least stored year, whatever order the years *)
(* were set in; it returns 0 for an empty series and 0 for a series with   *)
(* exactly one year; the series is left as it was.                         *)
(***************************************************************************)
C14_DifferenceIsLastMinusFirst ==
    (last.op = "getDifference") =>
        LET years == DOMAIN series.values
        IN  /\ series = last.pre
            /\ years = {} => last.arg.result = 0
            /\ Cardinality(years) = 1 => last.arg.result = 0
            /\ \A lo \in years, hi \in years :
                  (\A y \in years : lo <= y /\ y <= hi) =>
                      last.arg.result = series.values[hi] - series.values[lo]

\* the series {1991: 10, 1992: 15}, whose difference is 5
C14_Witness ==
    /\ last.op = "getDifference"
    /\ DOMAIN series.values = {1991, 1992}
    /\ series.values[1991] = 10
    /\ series.values[1992] = 15
    /\ last.arg.result = 5

(***************************************************************************)
(* Helpers of the claims about the area-code CSV ingestion.                *)
(***************************************************************************)
\* every data line has three fields none of which is empty
IsWellFormed(lines) ==
    \A i \in 1..Len(lines) :
        /\ Len(lines[i]) = 3
        /\ \A f \in 1..3 : lines[i][f] # <<>>

\* the call was given no area filter: a null pointer or an empty set
NoAreaFilter(areasFilter) == areasFilter = <<>> \/ areasFilter[1] = {}

\* the last call was an area-code CSV ingestion of the heading line and the data lines
\* `lines`, with a column mapping of three entries
IsAuthorityCodeCSVCall(lines) ==
    /\ last.op = "populateFromAuthorityCodeCSV"
    /\ Cardinality(DOMAIN last.arg.cols) = 3
    /\ last.arg.text = AuthorityCodeCSVText(lines)

\* the area stored under code has the English and the Welsh name of line
HasNamesOf(coll, code, line) ==
    /\ code \in DOMAIN coll
    /\ {eng, cym} \subseteq DOMAIN coll[code].names
    /\ coll[code].names[eng] = line[2]
    /\ coll[code].names[cym] = line[3]

(***************************************************************************)
(* C15 as stated.  Area-code CSV ingestion of a well-formed input with no  *)
(* area filter leaves the collection holding, for every data line, an area *)
(* under the code of that line whose "eng" name is the second field and    *)
(* whose "cym" name is the third; the heading line never produces an area. *)
(***************************************************************************)
C15_EveryLineIsStored ==
    \A lines \in IngestAuthorityCodeCSVLineInputs :
        (/\ IsAuthorityCodeCSVCall(lines)
         /\ IsWellFormed(lines)
         /\ NoAreaFilter(last.arg.areasFilter)) =>
            /\ last.err = "none"
            /\ Code \notin DOMAIN areas
            /\ \A i \in 1..Len(lines) : HasNamesOf(areas, lines[i][1], lines[i])

(***************************************************************************)
(* C15 amended.  Area-code CSV ingestion of a well-formed input with no    *)
(* area filter succeeds and leaves the collection holding, for every data  *)
(* line, an area under the code of that line whose "eng" and "cym" names   *)
(* are the second and third field of the last data line with that code;    *)
(* the heading line never produces an area.                                *)
(***************************************************************************)
C15_LastLineOfEachCodeIsStored ==
    \A lines \in IngestAuthorityCodeCSVLineInputs :
        (/\ IsAuthorityCodeCSVCall(lines)
         /\ IsWellFormed(lines)
         /\ NoAreaFilter(last.arg.areasFilter)) =>
            /\ last.err = "none"
            /\ Code \notin DOMAIN areas
            /\ DOMAIN areas = (DOMAIN last.pre) \cup {lines[i][1] : i \in 1..Len(lines)}
            /\ \A i \in 1..Len(lines) :
                  (\A j \in (i + 1)..Len(lines) : lines[j][1] # lines[i][1]) =>
                      HasNamesOf(areas, lines[i][1], lines[i])

\* a well-formed file with two lines for one area, ingested with no filter into a collection
\* that already holds that area
C15_Witness ==
    /\ last.op = "populateFromAuthorityCodeCSV"
    /\ last.err = "none"
    /\ last.arg.areasFilter = <<>>
    /\ last.arg.text =
          AuthorityCodeCSVText(<< <<W1, Foo, Bar>>, <<W2, Bar, Bar>>, <<W1, Bar, Foo>> >>)
    /\ W1 \in DOMAIN last.pre
    /\ areas[W1].names[eng] = Bar

(***************************************************************************)
(* C16.  If a data line of the area-code CSV has an empty authority code,  *)
(* English name or Welsh name, populateFromAuthorityCodeCSV fails with     *)
(* std::runtime_error and the whole call is aborted: the collection is     *)
(* what the lines before the malformed one leave, no line at or after the  *)
(* malformed one is ingested, and the malformed line is never skipped.     *)
(***************************************************************************)
C16_MalformedLineAborts ==
    \A lines \in IngestAuthorityCodeCSVLineInputs :
        (IsAuthorityCodeCSVCall(lines) /\ ~IsWellFormed(lines)) =>
            LET bad    == MinInt({i \in 1..Len(lines) : ~IsWellFormed(<< lines[i] >>)})
                before == SubSeq(lines, 1, bad - 1)
                codes  == {before[i][1] : i \in 1..Len(before)}
            IN  /\ last.err = "runtime_error"
                /\ areas = populateFromAuthorityCodeCSV(
                               last.pre, AuthorityCodeCSVText(before), last.arg.cols,
                               last.arg.areasFilter).areas
                /\ DOMAIN areas \subseteq (DOMAIN last.pre) \cup codes
                /\ \A k \in (DOMAIN last.pre) \ codes : areas[k] = last.pre[k]

\* a file whose second line has an empty Welsh name and whose third line is well formed: the
\* area of the first line is stored and the area of the other two lines is not
C16_Witness ==
    /\ last.op = "populateFromAuthorityCodeCSV"
    /\ last.err = "runtime_error"
    /\ last.arg.text =
          AuthorityCodeCSVText(<< <<W2, Foo, Bar>>, <<W1, Foo, <<>> >>, <<W1, Bar, Bar>> >>)
    /\ W2 \notin DOMAIN last.pre
    /\ W2 \in DOMAIN areas
    /\ W1 \notin DOMAIN areas

(***************************************************************************)
(* C17.  When the column mapping does not declare exactly 3 entries, the   *)
(* area-code CSV ingestion and the year-columns CSV ingestion fail with    *)
(* std::out_of_range before anything is read from the stream, and the      *)
(* collection is unchanged.                                                *)
(***************************************************************************)
C17_WrongMappingSizeFailsFirst ==
    /\ (/\ last.op = "populateFromAuthorityCodeCSV"
        /\ Cardinality(DOMAIN last.arg.cols) # 3) =>
          /\ last.err = "out_of_range"
          /\ areas = last.pre
          /\ populateFromAuthorityCodeCSV(last.pre, last.arg.text, last.arg.cols,
                                          last.arg.areasFilter).is = Stream(last.arg.text)
    /\ (/\ last.op = "populateFromAuthorityByYearCSV"
        /\ Cardinality(DOMAIN last.arg.cols) # 3) =>
          /\ last.err = "out_of_range"
          /\ areas = last.pre
          /\ populateFromAuthorityByYearCSV(
                 last.pre, last.arg.text, last.arg.cols, last.arg.areasFilter,
                 last.arg.measuresFilter, last.arg.yearsFilter).is = Stream(last.arg.text)

\* a year-columns ingestion of a well-formed file with the mapping of the single measure
\* dataset, which has six entries and names a measure, into a collection that holds areas
C17_Witness ==
    /\ last.op = "populateFromAuthorityByYearCSV"
    /\ last.arg.cols = TRAINS_COLS
    /\ last.arg.text = AuthorityByYearCSVText(<< <<W1, <<"1","0">>, <<"1","5">> >> >>)
    /\ last.arg.areasFilter = <<>>
    /\ last.err = "out_of_range"
    /\ DOMAIN last.pre # {}

(***************************************************************************)
(* Helpers of the claim about the area filter.                             *)
(***************************************************************************)
\* the call was given an area filter that is not empty
HasAreaFilter(areasFilter) == areasFilter # <<>> /\ areasFilter[1] # {}

\* code equals some entry of the filter ignoring letter case
MatchesIgnoringCase(areasFilter, code) ==
    \E entry \in areasFilter[1] : EqualIgnoringCase(entry, code)

\* the rows with the given authority codes were ingested exactly when they match the filter:
\* the code of a matching row is in the collection, and the code of a row that does not
\* match is not in it unless it was there before the call
IngestedIffMatching(codes, areasFilter) ==
    \A code \in codes :
        IF MatchesIgnoringCase(areasFilter, code)
        THEN code \in DOMAIN areas
        ELSE code \in DOMAIN areas => code \in DOMAIN last.pre

\* the call was given no measure filter and no year filter
NoOtherFilter ==
    /\ last.arg.measuresFilter = << {} >>
    /\ last.arg.yearsFilter = << <<0, 0>> >>

(***************************************************************************)
(* C18.  In each of the three ingestion routines, when the area filter is  *)
(* not empty a row is ingested if and only if its authority code equals    *)
(* some entry of the filter ignoring letter case (filter entry "w1" admits *)
(* row code "W1" and filter entry "W1" admits row code "w1").              *)
(***************************************************************************)
C18_AreaFilterIgnoresCase ==
    /\ \A lines \in IngestAuthorityCodeCSVLineInputs :
          (/\ IsAuthorityCodeCSVCall(lines)
           /\ IsWellFormed(lines)
           /\ HasAreaFilter(last.arg.areasFilter)) =>
              IngestedIffMatching({lines[i][1] : i \in 1..Len(lines)}, last.arg.areasFilter)
    /\ \A lines \in IngestAuthorityByYearCSVLineInputs :
          (/\ last.op = "populateFromAuthorityByYearCSV"
           /\ last.arg.text = AuthorityByYearCSVText(lines)
           /\ last.arg.cols = POP_COLS
           /\ last.err = "none"
           /\ NoOtherFilter
           /\ HasAreaFilter(last.arg.areasFilter)) =>
              IngestedIffMatching({lines[i][1] : i \in 1..Len(lines)}, last.arg.areasFilter)
    /\ (/\ last.op = "populateFromWelshStatsJSON"
        /\ last.err = "none"
        /\ Value \in DOMAIN last.arg.json
        /\ NoOtherFilter
        /\ HasAreaFilter(last.arg.areasFilter)) =>
           LET rows == last.arg.json[Value]
           IN  IngestedIffMatching({rows[i][AreaKey].str : i \in 1..Len(rows)},
                                   last.arg.areasFilter)

(***************************************************************************)
(* Helpers of the claim about a row without its value.                     *)
(***************************************************************************)
\* the row has every key of the mapping but the one of the value, and passes the three
\* filters of the last call
LacksValueAndPasses(row) ==
    /\ DOMAIN row = {AreaKey, AreaNameKey, MeasureKey, MeasureNameKey, YearKey}
    /\ isIncludedInFilter(last.arg.areasFilter, row[AreaKey].str, TRUE)
    /\ isIncludedInFilter(last.arg.measuresFilter, row[MeasureKey].str, FALSE)
    /\ ~parseYear_throws(row[YearKey].str)
    /\ isInYearRange(last.arg.yearsFilter, parseYear(row[YearKey].str))

C20_EmptyCellLeavesYearAbsent ==
    \A lines \in IngestAuthorityByYearCSVLineInputs :
        (/\ last.op = "populateFromAuthorityByYearCSV"
         /\ last.arg.text = AuthorityByYearCSVText(lines)
         /\ last.arg.cols = POP_COLS
         /\ NoAreaFilter(last.arg.areasFilter)
         /\ NoOtherFilter
         /\ \E i \in 1..Len(lines), c \in 2..3 : lines[i][c] = <<>>) =>
            /\ last.err = "none"
            /\ \A i \in 1..Len(lines) :
                  LET code == lines[i][1]
                  IN  (/\ code \notin DOMAIN last.pre
                       /\ \A j \in 1..Len(lines) : j # i => lines[j][1] # code) =>
                          /\ code \in DOMAIN areas
                          /\ pop \in DOMAIN areas[code].measures
                          /\ \A c \in 2..3 :
                                LET year   == 1989 + c
                                    values == areas[code].measures[pop].values
                                IN  IF lines[i][c] = <<>>
                                    THEN year \notin DOMAIN values
                                    ELSE isDouble(lines[i][c]) =>
                                            /\ year \in DOMAIN values
                                            /\ values[year] = stod(lines[i][c])

(***************************************************************************)
(* Helpers of the claim about the measure filter of a year-columns file.   *)
(***************************************************************************)
\* the mapping is one of a year-columns file: three entries, the fixed measure among them
IsYearColumnsMapping(cols) ==
    /\ Cardinality(DOMAIN cols) = 3
    /\ {"SINGLE_MEASURE_CODE", "SINGLE_MEASURE_NAME"} \subseteq DOMAIN cols

\* the measure filter is not empty and no entry of it equals code ignoring letter case
ExcludedByMeasureFilter(measuresFilter, code) ==
    /\ measuresFilter # <<>>
    /\ measuresFilter[1] # {}
    /\ \A entry \in measuresFilter[1] : ~EqualIgnoringCase(entry, code)

(***************************************************************************)
(* C21.  When the fixed measure code of the file is not in a measure       *)
(* filter that is not empty, year-columns CSV ingestion returns without    *)
(* failure and leaves the collection unchanged, whatever the stream        *)
(* contains (an empty stream, a heading that is malformed, rows that are   *)
(* malformed).  (Stated for the mappings of year-columns files.)           *)
(***************************************************************************)
C21_MeasureFilterSkipsFile ==
    (/\ last.op = "populateFromAuthorityByYearCSV"
     /\ IsYearColumnsMapping(last.arg.cols)
     /\ ExcludedByMeasureFilter(last.arg.measuresFilter,
                                last.arg.cols["SINGLE_MEASURE_CODE"])) =>
        /\ last.err = "none"
        /\ areas = last.pre

\* an empty stream and a file with a malformed heading were each skipped, on a collection
\* that an earlier call had filled
C21_Witness ==
    /\ last.op = "populateFromAuthorityByYearCSV"
    /\ last.arg.text \in MalformedAuthorityByYearCSVInputs
    /\ last.arg.cols = POP_COLS
    /\ last.arg.measuresFilter = << {den} >>
    /\ populateFromAuthorityByYearCSV(last.pre, last.arg.text, POP_COLS, <<>>, <<>>,
                                      << <<0, 0>> >>).err = "runtime_error"
    /\ last.err = "none"
    /\ last.pre # Areas_new
    /\ areas = last.pre

(***************************************************************************)
(* Helpers of the claim about calls with no restriction.                   *)
(***************************************************************************)
\* the last call was a populate call with no restriction: the overload without filters, or
\* the one with filters where each filter set is absent or empty and the year range is
\* absent or (0,0)
IsUnrestrictedPopulate ==
    \/ last.op = "populate"
    \/ /\ last.op = "populate_filtered"
       /\ last.arg.areasFilter \in { <<>>, << {} >> }
       /\ last.arg.measuresFilter \in { <<>>, << {} >> }
       /\ last.arg.yearsFilter \in { <<>>, << <<0, 0>> >> }

(***************************************************************************)
(* C22.  Ingestion called with no restriction (filter sets absent or       *)
(* empty and the year range absent or (0,0)), through either populate      *)
(* overload or the default arguments, ingests every row of the input for   *)
(* all three formats and never fails because a filter was not supplied:    *)
(* the call ends as the call with empty filter sets and the range (0,0)    *)
(* ends.                                                                   *)
(***************************************************************************)
C22_NoRestrictionIngestsEveryRow ==
    IsUnrestrictedPopulate =>
        LET every == populate_filtered(last.pre, last.arg.good, last.arg.input, last.arg.type,
                                       last.arg.cols, << {} >>, << {} >>, << <<0, 0>> >>)
        IN  /\ last.err = every.err
            /\ areas = every.areas

(***************************************************************************)
(* Helpers of the claim about the JSON export.                             *)
(***************************************************************************)
\* the JSON object of one area: exactly the keys "names" (language code to name) and
\* "measures" (measure code to an object from the decimal text of each year to its value)
AreaExportShape(area) ==
    LET names    == JsonObject([l \in DOMAIN area.names |-> JsonString(area.names[l])])
        measures == JsonObject([c \in DOMAIN area.measures |->
                        JsonObject([s \in {to_string(y) : y \in DOMAIN area.measures[c].values} |->
                            JsonNumber(area.measures[c].values[
                                CHOOSE y \in DOMAIN area.measures[c].values :
                                    to_string(y) = s])])])
    IN  JsonObject([k \in {<<"n","a","m","e","s">>, <<"m","e","a","s","u","r","e","s">>} |->
                       IF k = <<"n","a","m","e","s">> THEN names ELSE measures])

\* one JSON object with a key per authority code
ExportShape(coll) == JsonObject([code \in DOMAIN coll |-> AreaExportShape(coll[code])])

(***************************************************************************)
(* C23.  Areas::toJSON returns the text {} for an empty collection; for a  *)
(* collection that is not empty it returns one JSON object with a key per  *)
(* authority code, each mapping to an object with exactly the keys         *)
(* "names" (language code to name) and "measures" (measure code to an      *)
(* object mapping the decimal text of each year to its value).             *)
(***************************************************************************)
C23_ToJSONShape ==
    last.op = "toJSON" =>
        IF last.pre = EmptyMap
        THEN last.arg.result = <<"{", "}">>
        ELSE last.arg.result = dump(ExportShape(last.pre))

(***************************************************************************)
(* Helpers of the claims about the table rendering of an Area.             *)
(***************************************************************************)
\* the first line of a text, without its end of line
FirstLine(text) ==
    IF IndexOf(text, "\n") = 0 THEN text ELSE SubSeq(text, 1, IndexOf(text, "\n") - 1)

\* the text after the first line
AfterFirstLine(text) ==
    IF IndexOf(text, "\n") = 0 THEN <<>>
    ELSE SubSeq(text, IndexOf(text, "\n") + 1, Len(text))

\* the placeholder for an area without a name
Unnamed == <<"U","n","n","a","m","e","d">>

\* the name that the header line shows
DisplayName(area) ==
    IF eng \in DOMAIN area.names /\ cym \in DOMAIN area.names
    THEN area.names[eng] \o <<" ", "/", " ">> \o area.names[cym]
    ELSE IF eng \in DOMAIN area.names THEN area.names[eng]
    ELSE IF cym \in DOMAIN area.names THEN area.names[cym]
    ELSE Unnamed

\* the last call rendered the area that was stored under the code it names
IsPrintArea == last.op = "printArea" /\ last.err = "none"

(***************************************************************************)
(* C24.  The header line of the table rendering of an Area is              *)
(* "<eng> / <cym>" when both an "eng" and a "cym" name are set, the single *)
(* name when one of them only is set, and the placeholder for no name when *)
(* neither is set, in each case followed by the authority code in          *)
(* parentheses; names in other languages never appear in it.               *)
(***************************************************************************)
C24_HeaderLine ==
    IsPrintArea =>
        LET area == last.pre[last.arg.code]
        IN  FirstLine(last.arg.result) =
                DisplayName(area) \o <<" ", "(">> \o area.authorityCode \o <<")">>

\* an area with an English name, a Welsh name and a name in another language, all
\* different, was rendered: its header line shows the first two
C24_Witness ==
    /\ IsPrintArea
    /\ LET names == last.pre[last.arg.code].names
       IN  /\ DOMAIN names = {eng, cym, fra}
           /\ names[fra] # names[eng]
           /\ names[eng] # names[cym]
           /\ FirstLine(last.arg.result) =
                  names[eng] \o <<" ", "/", " ">> \o names[cym] \o <<" ", "(">> \o
                  last.pre[last.arg.code].authorityCode \o <<")">>

\* the placeholder line of an area without measures
NoMeasures == <<"<","n","o"," ","m","e","a","s","u","r","e","s",">">>

(***************************************************************************)
(* C25.  The table rendering of an Area that has no measures consists of   *)
(* its header line followed by the literal no-data placeholder line; the   *)
(* placeholder appears if and only if the area has no measures.            *)
(***************************************************************************)
C25_NoMeasuresPlaceholder ==
    IsPrintArea =>
        LET area == last.pre[last.arg.code]
            text == last.arg.result
        IN  /\ Contains(text, NoMeasures) <=> (area.measures = EmptyMap)
            /\ area.measures = EmptyMap =>
                   text = FirstLine(text) \o <<"\n">> \o NoMeasures \o <<"\n">>

\* the cell without the carriage return that it ends with, if it ends with one
WithoutCarriageReturn(cell) ==
    IF cell # <<>> /\ cell[Len(cell)] = "\r" THEN SubSeq(cell, 1, Len(cell) - 1) ELSE cell

(***************************************************************************)
(* C26.  For every data row of a year-columns CSV that passes the area     *)
(* filter, the resulting series maps year y to the cell in the column      *)
(* whose header is y, for exactly the declared years y that lie in the     *)
(* year range and whose cell parses as a number; when the year range       *)
(* excludes an earlier column, the values of later columns in the range    *)
(* are still stored under their own years.  (Stated for the calls that     *)
(* succeed, per area for the areas that the collection did not hold and    *)
(* that one line only names.)                                              *)
(***************************************************************************)
C26_CellsStoredUnderTheirYears ==
    \A lines \in IngestAuthorityByYearCSVLineInputs :
        (/\ last.op = "populateFromAuthorityByYearCSV"
         /\ last.arg.text = AuthorityByYearCSVText(lines)
         /\ last.arg.cols = POP_COLS
         /\ isIncludedInFilter(last.arg.measuresFilter, pop, FALSE)
         /\ last.err = "none") =>
            \A i \in 1..Len(lines) :
                LET code == lines[i][1]
                IN  (/\ isIncludedInFilter(last.arg.areasFilter, code, TRUE)
                     /\ code \notin DOMAIN last.pre
                     /\ \A j \in 1..Len(lines) : j # i => lines[j][1] # code) =>
                        /\ code \in DOMAIN areas
                        /\ pop \in DOMAIN areas[code].measures
                        /\ \A c \in 2..3 :
                              LET year   == 1989 + c
                                  cell   == WithoutCarriageReturn(lines[i][c])
                                  values == areas[code].measures[pop].values
                              IN  IF /\ isInYearRange(last.arg.yearsFilter, year)
                                     /\ isDouble(cell)
                                  THEN /\ year \in DOMAIN values
                                       /\ values[year] = stod(cell)
                                  ELSE year \notin DOMAIN values

(***************************************************************************)
(* Helpers of the claim about the order of the filters.                    *)
(***************************************************************************)
\* the row has the key and its value is a string
HasString(row, key) == key \in DOMAIN row /\ row[key].type = "string"

\* the area filter of the last call rejects the row
RejectedByAreaFilter(row) ==
    /\ HasString(row, AreaKey)
    /\ ~isIncludedInFilter(last.arg.areasFilter, row[AreaKey].str, TRUE)

\* the row passes the area filter and the measure filter rejects it
RejectedByMeasureFilter(row) ==
    /\ HasString(row, AreaKey)
    /\ isIncludedInFilter(last.arg.areasFilter, row[AreaKey].str, TRUE)
    /\ HasString(row, MeasureKey)
    /\ ~isIncludedInFilter(last.arg.measuresFilter, row[MeasureKey].str, FALSE)

\* the row passes the area and the measure filter and its year is outside the year range
RejectedByYearRange(row) ==
    /\ HasString(row, AreaKey)
    /\ isIncludedInFilter(last.arg.areasFilter, row[AreaKey].str, TRUE)
    /\ HasString(row, MeasureKey)
    /\ isIncludedInFilter(last.arg.measuresFilter, row[MeasureKey].str, FALSE)
    /\ HasString(row, YearKey)
    /\ ~parseYear_throws(row[YearKey].str)
    /\ ~isInYearRange(last.arg.yearsFilter, parseYear(row[YearKey].str))

\* no filter rejects the row before the rest of it is looked at
NotRejected(row) ==
    ~(RejectedByAreaFilter(row) \/ RejectedByMeasureFilter(row) \/ RejectedByYearRange(row))

\* the row lacks a key that is read after the test that rejects it, or its year is no number
IsIncomplete(row) ==
    \/ DOMAIN row # {AreaKey, AreaNameKey, MeasureKey, MeasureNameKey, YearKey, DataKey}
    \/ parseYear_throws(row[YearKey].str)

(***************************************************************************)
(* C27.  Row-oriented JSON ingestion tests each row against the area       *)
(* filter, then the measure filter, then the year range, and stops at the  *)
(* first that fails: a row rejected by the area filter is skipped without  *)
(* error even if its measure, year, name or value key is missing or its    *)
(* year is unparseable, and a row rejected by the measure filter is        *)
(* skipped without error even if its year, name or value is missing or     *)
(* unparseable.  The call ends as it ends on the file without the rejected *)
(* rows.                                                                   *)
(***************************************************************************)
C27_FirstFailingFilterSkipsRow ==
    (/\ last.op = "populateFromWelshStatsJSON"
     /\ last.arg.cols = POPDEN_COLS
     /\ Value \in DOMAIN last.arg.json) =>
        LET kept == populateFromWelshStatsJSON(
                        last.pre, Json(SelectSeq(last.arg.json[Value], NotRejected)),
                        last.arg.cols, last.arg.areasFilter, last.arg.measuresFilter,
                        last.arg.yearsFilter)
        IN  /\ last.err = kept.err
            /\ areas = kept.areas

\* a file whose second row the measure filter rejects, without year, name and value, and
\* whose third row the area filter rejects, with a year that is no number: the call
\* succeeds and stores the first row only
C27_Witness ==
    /\ last.op = "populateFromWelshStatsJSON"
    /\ last.arg.cols = POPDEN_COLS
    /\ Value \in DOMAIN last.arg.json
    /\ LET rows == last.arg.json[Value]
       IN  /\ Len(rows) = 3
           /\ NotRejected(rows[1])
           /\ RejectedByMeasureFilter(rows[2]) /\ IsIncomplete(rows[2])
           /\ RejectedByAreaFilter(rows[3]) /\ IsIncomplete(rows[3])
    /\ last.err = "none"
    /\ last.pre = Areas_new
    /\ DOMAIN areas = {W1}
    /\ DOMAIN areas[W1].measures = {pop}
    /\ areas[W1].measures[pop].values = MapPut(EmptyMap, 1992, 15)

(***************************************************************************)
(* Helpers of the claim about the year of a row.                           *)
(***************************************************************************)
\* the text is one or more decimal digits and nothing else
IsDecimalDigits(str) == str # <<>> /\ \A i \in 1..Len(str) : str[i] \in DigitSet

\* the row passes the area and the measure filter of the last call and its year is a text
\* that is not purely decimal digits
HasBadYearAndPasses(row) ==
    /\ HasString(row, AreaKey)
    /\ isIncludedInFilter(last.arg.areasFilter, row[AreaKey].str, TRUE)
    /\ HasString(row, MeasureKey)
    /\ isIncludedInFilter(last.arg.measuresFilter, row[MeasureKey].str, FALSE)
    /\ HasString(row, YearKey)
    /\ ~IsDecimalDigits(row[YearKey].str)

(***************************************************************************)
(* C28.  In row-oriented JSON ingestion, a row that passes the area and    *)
(* measure filters and whose year text is not purely decimal digits (the   *)
(* empty string, "-5", "+5", " 5", "19a1") makes the call fail with        *)
(* std::runtime_error, and no value is stored for that row: the collection *)
(* is left as the rows before it left it.                                  *)
(***************************************************************************)
C28_YearNotDigitsAborts ==
    (/\ last.op = "populateFromWelshStatsJSON"
     /\ last.arg.cols = POPDEN_COLS
     /\ Value \in DOMAIN last.arg.json) =>
        LET rows == last.arg.json[Value]
            bads == {i \in 1..Len(rows) : HasBadYearAndPasses(rows[i])}
        IN  bads # {} =>
                LET bad     == MinInt(bads)
                    earlier == populateFromWelshStatsJSON(
                                   last.pre, Json(SubSeq(rows, 1, bad - 1)), last.arg.cols,
                                   last.arg.areasFilter, last.arg.measuresFilter,
                                   last.arg.yearsFilter)
                IN  earlier.err = "none" =>
                        /\ last.err = "runtime_error"
                        /\ areas = earlier.areas

(***************************************************************************)
(* Helpers of the claim about what a JSON ingestion call stores and keeps. *)
(***************************************************************************)
\* the row has every key and passes the three filters of the last call: it is ingested
IsIngested(row) ==
    /\ DOMAIN row = {AreaKey, AreaNameKey, MeasureKey, MeasureNameKey, YearKey, DataKey}
    /\ isIncludedInFilter(last.arg.areasFilter, row[AreaKey].str, TRUE)
    /\ isIncludedInFilter(last.arg.measuresFilter, row[MeasureKey].str, FALSE)
    /\ ~parseYear_throws(row[YearKey].str)
    /\ isInYearRange(last.arg.yearsFilter, parseYear(row[YearKey].str))

\* the area code, measure code and year that the row names
Addressed(row) == <<row[AreaKey].str, toLower(row[MeasureKey].str), parseYear(row[YearKey].str)>>

(***************************************************************************)
(* C29.  After a successful row-oriented JSON ingestion call, for every    *)
(* area code, measure code and year named by some ingested row the stored  *)
(* value is that of the last such row in input order, and every name,      *)
(* measure and year value that was in the collection before the call and   *)
(* is not addressed by an ingested row is unchanged (a "cym" name loaded    *)
(* earlier from the area-code CSV is still there).                         *)
(***************************************************************************)
C29_LastRowWinsAndRestIsKept ==
    (/\ last.op = "populateFromWelshStatsJSON"
     /\ last.arg.cols = POPDEN_COLS
     /\ Value \in DOMAIN last.arg.json
     /\ last.err = "none") =>
        LET rows     == last.arg.json[Value]
            ingested == {i \in 1..Len(rows) : IsIngested(rows[i])}
        IN  /\ \A i \in ingested :
                  LET a      == Addressed(rows[i])
                      latest == MaxInt({j \in ingested : Addressed(rows[j]) = a})
                  IN  /\ a[1] \in DOMAIN areas
                      /\ a[2] \in DOMAIN areas[a[1]].measures
                      /\ a[3] \in DOMAIN areas[a[1]].measures[a[2]].values
                      /\ areas[a[1]].measures[a[2]].values[a[3]] = rows[latest][DataKey].num
            /\ \A code \in DOMAIN last.pre :
                  /\ code \in DOMAIN areas
                  /\ \A lang \in DOMAIN last.pre[code].names :
                        \/ lang = eng /\ \E i \in ingested : rows[i][AreaKey].str = code
                        \/ /\ lang \in DOMAIN areas[code].names
                           /\ areas[code].names[lang] = last.pre[code].names[lang]
                  /\ \A m \in DOMAIN last.pre[code].measures :
                        /\ m \in DOMAIN areas[code].measures
                        /\ \A y \in DOMAIN last.pre[code].measures[m].values :
                              \/ \E i \in ingested : Addressed(rows[i]) = <<code, m, y>>
                              \/ /\ y \in DOMAIN areas[code].measures[m].values
                                 /\ areas[code].measures[m].values[y] =
                                        last.pre[code].measures[m].values[y]

\* two rows for W1, pop and 1991 were ingested into a collection that held a Welsh name
\* for W1: the value of the second row is stored and the Welsh name is kept
C29_Witness ==
    /\ last.op = "populateFromWelshStatsJSON"
    /\ last.arg.json \in MergeJSONInputs
    /\ last.err = "none"
    /\ \A i \in 1..2 : IsIngested(last.arg.json[Value][i])
    /\ W1 \in DOMAIN last.pre
    /\ cym \in DOMAIN last.pre[W1].names
    /\ areas[W1].names[cym] = last.pre[W1].names[cym]
    /\ areas[W1].measures[pop].values[1991] = 15

(***************************************************************************)
(* C30.  Merging never changes the code or the label of the series merged  *)
(* into: after any sequence of setMeasure, Area merge, setArea and         *)
(* ingestion calls, the label of a stored series is the label of the first *)
(* series inserted under that measure code (unless setLabel was called on  *)
(* it), even when later merged series carry a different label or code.     *)
(* Every call but setLabel leaves the code and the label of every series   *)
(* that the collection held before it.                                     *)
(***************************************************************************)
C30_MergeKeepsCodeAndLabel ==
    last.op \notin {"init", "setLabel"} =>
        \A code \in DOMAIN last.pre :
            /\ code \in DOMAIN areas
            /\ \A key \in DOMAIN last.pre[code].measures :
                  /\ key \in DOMAIN areas[code].measures
                  /\ areas[code].measures[key].code = last.pre[code].measures[key].code
                  /\ areas[code].measures[key].label = last.pre[code].measures[key].label

\* setMeasure merged a series with another code and another label into a stored series:
\* values were added, code and label are those of the stored series
C30_Witness ==
    /\ last.op = "setMeasure"
    /\ last.err = "none"
    /\ LET code == last.arg.code
           key  == Area_toLower(last.arg.codename)
       IN  /\ key \in DOMAIN last.pre[code].measures
           /\ last.arg.measure.code # last.pre[code].measures[key].code
           /\ last.arg.measure.label # last.pre[code].measures[key].label
           /\ areas[code].measures[key].values # last.pre[code].measures[key].values
           /\ areas[code].measures[key].code = last.pre[code].measures[key].code
           /\ areas[code].measures[key].label = last.pre[code].measures[key].label

====
